---- MODULE Spec2Model ----
(***************************************************************************)
(* Verification model of the SigtraConfig trading bot: the RiskManager     *)
(* position sizer, the FIFO fill matchers, the paths that open a position  *)
(* (live cycle, backtest signal handler), and the live order execution    *)
(* (entry order, fill polling, exit batch) against a venue.                *)
(*                                                                         *)
(* A JavaScript number is written <<n, d>> (d > 0, lowest terms) and is    *)
(* the IEEE double nearest to n/d; <<n, d, k>> is the double k places      *)
(* beyond that one, away from zero.  `undefined` is the empty tuple.       *)
(***************************************************************************)
EXTENDS Integers, Sequences, FiniteSets, TLC

VARIABLES
    rmConfig,       \* config object handed to `new RiskManager(config)`
    marketData,     \* { balance, ohlc } : balance and the last candle's close
    tradingSignal,  \* { signal, stop_loss_distance_in_usd, take_profit_distance_in_usd }
    tradeParams,    \* value returned by calculateTradeParameters
    rmPc,           \* "ready" before the call, "returned" after it
    rawFills,       \* argument of buildLast10ClosedFromRawFills (venue order)
    botStartTime,   \* BOT_START_TIME, fixed when the module is loaded
    fmPc,           \* "start" | "loop" | "done" | "idle"
    fmFills,        \* local `fills`: eligible fills, reversed
    fmIdx,          \* position of the for-loop in fmFills
    queue,          \* local `queue` of open lots
    closed,         \* local `closed`, all trades emitted so far
    last10,         \* returned array
    matchLog,       \* history: the matches made by the fill processed last
    pnlFills,       \* argument of realizedPnlStatsFromFills
    pnlPc,          \* "loop" | "done" | "idle"
    pnlIdx,         \* position of the for-loop in pnlFills
    pnlQueue,       \* local `queue` of { side, size, price }
    pnlStats,       \* { realisedPnL, winCount, totalCloses }
    botPc,          \* live bot: "boot" until the module has loaded, then "running"
    cycles,         \* live cycles run so far
    liveEntry,      \* last entry order the live bot sent to the venue
    simBalance,     \* backtest: this.exec.balance
    apiCalls,       \* backtest: Signal Source calls made by run()
    simOpenTrade,   \* backtest: this.exec.getOpenTrade()
    exPc,           \* live cycle and placeOrder: "idle" | "send" | "monitor" | "exits" | "caller" | "saving"
    exCall,         \* the placeOrder call in progress (locals and history)
    venueOrders,    \* venue: the entry orders it accepted, oldest first
    batchLog,       \* history: every batchOrder submission, oldest first
    sendCount,      \* history: sendOrder calls made so far
    allTrades,      \* bot.js allTrades: the trade records pushed by cycle()
    sawOpen,        \* history: the last cycle found a position open
    sgIn,           \* generateSignal: the market data and what the model call does
    sgOut,          \* generateSignal: the value it resolves to, or that it threw
    sgPc,           \* "ready" before the call, "returned" after it
    btCfg,          \* backtest: this.cfg
    btCandles,      \* backtest: candles, after the date filter
    btIdx,          \* backtest: loop index i of run(), counted from 1
    btPc,           \* backtest run(): "start" | "loop" | "summary" | "done" | "failed" | "crashed"
    btTrades,       \* backtest: this.exec.getTrades(), the closed trades
    btCalls,        \* history: the candles on which the Signal Source was called
    btOpenedAt,     \* history: the candle on which the open trade was opened
    ldFile,         \* ledger: the trade records in trades.json
    ldMem,          \* ledger: allTrades, the records not yet saved
    ldCallers,      \* ledger: the running saveTradesToFile calls
    ldAll,          \* history: every trade record that ever existed
    moPc,           \* monitorOrderFill: "idle" | "check" | "poll" | "sleep" | "done"
    moElapsed,      \* monitorOrderFill: Date.now() - startTime, in ms
    moPolls,        \* history: getRecentOrders calls made by this monitorOrderFill
    moThrew,        \* history: polls of this call that threw
    moFilledAt,     \* history: the poll that reported the order filled, 0 if none
    moResult,       \* monitorOrderFill: "pending" | "order" | "null"
    lpPc,           \* bot.js: "boot", the await cycle() is suspended at ("fetch" | "signal" | "order" | "saving"), "settled" | "waiting" | "exited"
    lpRunning,      \* cycle() promises not yet settled
    lpTimers,       \* setTimeout(loop, CYCLE_MS) timers pending
    lpCycles,       \* history: cycle() calls made so far
    lpSuccessors,   \* history: timers scheduled for the cycle started last
    lpMem,          \* bot.js allTrades, as the PnL completion block sees it
    lpFile,         \* the trade records in trades.json
    lpSeen,         \* history: trades whose exit level a later cycle observed
    lpOutcome,      \* history: how the cycle that ended last went
    lpLocal,        \* cycle(): its locals lastPrice, signal and params
    lpSaves         \* the saveTradesToFile calls of cycle() and of the SIGINT handler

riskVars == <<rmConfig, marketData, tradingSignal, tradeParams, rmPc>>

matchVars == <<rawFills, botStartTime, fmPc, fmFills, fmIdx, queue, closed,
               last10, matchLog>>

pnlVars == <<pnlFills, pnlPc, pnlIdx, pnlQueue, pnlStats>>

entryVars == <<botPc, cycles, liveEntry, simBalance, apiCalls, simOpenTrade>>

execVars == <<exPc, exCall, venueOrders, batchLog, sendCount, allTrades,
              sawOpen>>

signalVars == <<sgIn, sgOut, sgPc>>

simVars == <<btCfg, btCandles, btIdx, btPc, btTrades, btCalls, btOpenedAt>>

ledgerVars == <<ldFile, ldMem, ldCallers, ldAll>>

monitorVars == <<moPc, moElapsed, moPolls, moThrew, moFilledAt, moResult>>

loopVars == <<lpPc, lpRunning, lpTimers, lpCycles, lpSuccessors, lpMem, lpFile,
              lpSeen, lpOutcome, lpLocal, lpSaves>>

vars == <<rmConfig, marketData, tradingSignal, tradeParams, rmPc,
          rawFills, botStartTime, fmPc, fmFills, fmIdx, queue, closed,
          last10, matchLog,
          pnlFills, pnlPc, pnlIdx, pnlQueue, pnlStats,
          botPc, cycles, liveEntry, simBalance, apiCalls, simOpenTrade,
          exPc, exCall, venueOrders, batchLog, sendCount, allTrades, sawOpen,
          sgIn, sgOut, sgPc,
          btCfg, btCandles, btIdx, btPc, btTrades, btCalls, btOpenedAt,
          ldFile, ldMem, ldCallers, ldAll,
          moPc, moElapsed, moPolls, moThrew, moFilledAt, moResult,
          lpPc, lpRunning, lpTimers, lpCycles, lpSuccessors, lpMem, lpFile,
          lpSeen, lpOutcome, lpLocal, lpSaves>>

----------------------------------------------------------------------------
(* Rational arithmetic on the numbers that doubles approximate.            *)

Undefined == <<>>

\* A JSON value that is present but not a number, e.g. the string "high".
NonNumeric == <<1, 0, 0>>

\* JSON null.
JsNull == <<0>>

IsNumber(x) == Len(x) = 2

\* ToNumber, as the relational operators apply it to an operand: null is 0,
\* undefined and a non-numeric string are NaN (written Undefined here).
ToNumber(x) ==
    IF x = JsNull THEN <<0, 1>>
    ELSE IF IsNumber(x) THEN x
    ELSE Undefined

Abs(x) == IF x < 0 THEN -x ELSE x

RECURSIVE GCD(_, _)
GCD(a, b) == IF b = 0 THEN a ELSE GCD(b, a % b)

Rat(n, d) ==
    LET s == IF d < 0 THEN -1 ELSE 1
        g == GCD(Abs(n), Abs(d))
    IN  <<(s * n) \div g, (s * d) \div g>>

Num(k) == <<k, 1>>

RMul(a, b) ==
    LET g1 == GCD(Abs(a[1]), b[2])
        g2 == GCD(Abs(b[1]), a[2])
    IN  Rat((a[1] \div g1) * (b[1] \div g2), (a[2] \div g2) * (b[2] \div g1))

RDiv(a, b) == RMul(a, IF b[1] < 0 THEN <<-b[2], -b[1]>> ELSE <<b[2], b[1]>>)

RAdd(a, b) ==
    LET g == GCD(a[2], b[2])
    IN  Rat(a[1] * (b[2] \div g) + b[1] * (a[2] \div g), (a[2] \div g) * b[2])

RSub(a, b) == RAdd(a, <<-b[1], b[2]>>)

\* Sign of a/b - c/d (b, d > 0), by comparing continued-fraction expansions;
\* no product is formed.
RECURSIVE Cmp(_, _, _, _)
Cmp(a, b, c, d) ==
    LET q1 == a \div b
        q2 == c \div d
        r1 == a % b
        r2 == c % d
    IN  IF q1 < q2 THEN -1
        ELSE IF q1 > q2 THEN 1
        ELSE IF r1 = 0 /\ r2 = 0 THEN 0
        ELSE IF r1 = 0 THEN -1
        ELSE IF r2 = 0 THEN 1
        ELSE Cmp(d, r2, b, r1)

RLt(a, b) == Cmp(a[1], a[2], b[1], b[2]) < 0

RLe(a, b) == Cmp(a[1], a[2], b[1], b[2]) <= 0

RMin(a, b) == IF RLt(b, a) THEN b ELSE a

Pow10(k) == IF k = 0 THEN 1 ELSE IF k = 1 THEN 10 ELSE IF k = 2 THEN 100
            ELSE IF k = 3 THEN 1000 ELSE 10000

\* Long division: <<floor(n * 10^k / d), remainder>> for n >= 0, one digit
\* at a time.
RECURSIVE ScaleDiv(_, _, _, _)
ScaleDiv(q, r, d, k) ==
    IF k = 0 THEN <<q, r>>
    ELSE ScaleDiv(q * 10 + ((r * 10) \div d), (r * 10) % d, d, k - 1)

----------------------------------------------------------------------------
(* IEEE 754 binary64 arithmetic, as the JavaScript engine performs it.     *)
(* A natural number of any size is a sequence of limbs in base 2^15, least *)
(* significant first, without leading zero limbs. A double is a record     *)
(* [neg, m, e] of value (-1)^neg * m * 2^e with m a 53-bit natural, or     *)
(* m = <<>> for zero. Subnormals, infinities and NaN do not arise for the  *)
(* magnitudes the bot computes with.                                       *)

RECURSIVE BNorm(_)
BNorm(a) ==
    IF a = <<>> THEN a
    ELSE IF a[Len(a)] = 0 THEN BNorm(SubSeq(a, 1, Len(a) - 1))
    ELSE a

BFromInt(n) ==
    BNorm(<<n % 32768, (n \div 32768) % 32768, n \div 1073741824>>)

BLimb(a, i) == IF i <= Len(a) THEN a[i] ELSE 0

BToInt(a) == BLimb(a, 1) + BLimb(a, 2) * 32768 + BLimb(a, 3) * 1073741824

RECURSIVE BCmpFrom(_, _, _)
BCmpFrom(a, b, i) ==
    IF i = 0 THEN 0
    ELSE IF a[i] < b[i] THEN -1
    ELSE IF a[i] > b[i] THEN 1
    ELSE BCmpFrom(a, b, i - 1)

BCmp(a, b) ==
    IF Len(a) < Len(b) THEN -1
    ELSE IF Len(a) > Len(b) THEN 1
    ELSE BCmpFrom(a, b, Len(a))

RECURSIVE BAddFrom(_, _, _, _)
BAddFrom(a, b, i, c) ==
    IF i > Len(a) /\ i > Len(b) THEN (IF c = 0 THEN <<>> ELSE <<c>>)
    ELSE LET s == BLimb(a, i) + BLimb(b, i) + c
         IN  <<s % 32768>> \o BAddFrom(a, b, i + 1, s \div 32768)

BAdd(a, b) == BAddFrom(a, b, 1, 0)

\* a - b for a >= b
RECURSIVE BSubFrom(_, _, _, _)
BSubFrom(a, b, i, c) ==
    IF i > Len(a) THEN <<>>
    ELSE LET s == a[i] - BLimb(b, i) - c
         IN  <<IF s < 0 THEN s + 32768 ELSE s>>
                 \o BSubFrom(a, b, i + 1, IF s < 0 THEN 1 ELSE 0)

BSub(a, b) == BNorm(BSubFrom(a, b, 1, 0))

\* a * k for 0 <= k <= 2^15
RECURSIVE BMulSmallFrom(_, _, _, _)
BMulSmallFrom(a, k, i, c) ==
    IF i > Len(a) THEN (IF c = 0 THEN <<>> ELSE <<c>>)
    ELSE LET s == a[i] * k + c
         IN  <<s % 32768>> \o BMulSmallFrom(a, k, i + 1, s \div 32768)

BMulSmall(a, k) == IF k = 0 THEN <<>> ELSE BMulSmallFrom(a, k, 1, 0)

BShlLimbs(a, n) == IF a = <<>> THEN a ELSE [i \in 1 .. n |-> 0] \o a

RECURSIVE BMulFrom(_, _, _)
BMulFrom(a, b, i) ==
    IF i > Len(b) THEN <<>>
    ELSE BAdd(BShlLimbs(BMulSmall(a, b[i]), i - 1), BMulFrom(a, b, i + 1))

BMul(a, b) == BMulFrom(a, b, 1)

\* a * 2^s
BShl(a, s) == BShlLimbs(BMulSmall(a, 2 ^ (s % 15)), s \div 15)

\* floor(a / 2^s)
BShr(a, s) ==
    BNorm([i \in 1 .. Len(a) - (s \div 15) |->
              (a[i + (s \div 15)] \div 2 ^ (s % 15))
              + (BLimb(a, i + (s \div 15) + 1) % 2 ^ (s % 15))
                * 2 ^ (15 - (s % 15))])

\* Bit i of a, the lowest being bit 0
BBit(a, i) == (BLimb(a, (i \div 15) + 1) \div 2 ^ (i % 15)) % 2 = 1

\* Some bit of a below bit s is set
BAnyBelow(a, s) ==
    \E i \in 1 .. Len(a) :
        \/ i <= s \div 15 /\ a[i] # 0
        \/ i = (s \div 15) + 1 /\ a[i] % 2 ^ (s % 15) # 0

BOdd(a) == a # <<>> /\ a[1] % 2 = 1

\* q = floor(a / 2^s), with whether the bit below is set (half) and whether
\* a lower one is (sticky); `sticky`: a stands for a value slightly larger
\* than a
BShrRound(a, s, sticky) ==
    [ q      |-> BShr(a, s),
      half   |-> s > 0 /\ BBit(a, s - 1),
      sticky |-> sticky \/ (s > 1 /\ BAnyBelow(a, s - 1)) ]

RECURSIVE BitLenInt(_)
BitLenInt(n) == IF n = 0 THEN 0 ELSE 1 + BitLenInt(n \div 2)

BitLen(a) ==
    IF a = <<>> THEN 0 ELSE 15 * (Len(a) - 1) + BitLenInt(a[Len(a)])

DZero == [neg |-> FALSE, m |-> <<>>, e |-> 0]

\* The double nearest to (-1)^neg * m * 2^e, ties to even
RECURSIVE DRound(_, _, _, _)

\* t.q gains one when the part cut off is above one half, or is one half
\* and t.q is odd
DRoundUp(neg, t, e) ==
    DRound(neg,
           IF t.half /\ (t.sticky \/ BOdd(t.q)) THEN BAdd(t.q, <<1>>) ELSE t.q,
           e, FALSE)

DRound(neg, m, e, sticky) ==
    IF m = <<>> THEN DZero
    ELSE IF BitLen(m) <= 53
    THEN [neg |-> neg, m |-> BShl(m, 53 - BitLen(m)), e |-> e + BitLen(m) - 53]
    ELSE DRoundUp(neg, BShrRound(m, BitLen(m) - 53, sticky),
                  e + BitLen(m) - 53)

DFromInt(n) == DRound(n < 0, BFromInt(Abs(n)), 0, FALSE)

DNeg(x) == IF x.m = <<>> THEN x ELSE [x EXCEPT !.neg = ~x.neg]

DMul(x, y) ==
    IF x.m = <<>> \/ y.m = <<>> THEN DZero
    ELSE DRound(x.neg # y.neg, BMul(x.m, y.m), x.e + y.e, FALSE)

\* floor(r / d) and what remains, counted up from q with q * d taken off r
\* already
RECURSIVE BDigit(_, _, _)
BDigit(r, d, q) ==
    IF BCmp(r, d) >= 0 THEN BDigit(BSub(r, d), d, q + 1)
    ELSE [q |-> q, r |-> r]

BDigitFrom(r, d, estimate) == BDigit(BSub(r, BMulSmall(d, estimate)), d, estimate)

\* The base-2^15 digit floor(r / d) for r < d * 2^15, d of four limbs with
\* the top one at least 2^14: counted up from an estimate that the two top
\* limbs of r and the top limb of d give, and that is at most 3 too low
BDivDigit(r, d) ==
    BDigitFrom(r, d, (BLimb(r, 5) * 32768 + BLimb(r, 4)) \div (BLimb(d, 4) + 1))

\* k further base-2^15 digits of r / d (r < d): the quotient q, the
\* remainder r
RECURSIVE BDivLimbs(_, _, _, _)

BDivNext(t, d, q, k) == BDivLimbs(t.r, d, <<t.q>> \o q, k)

BDivLimbs(r, d, q, k) ==
    IF k = 0 THEN [q |-> BNorm(q), r |-> r]
    ELSE BDivNext(BDivDigit(BShlLimbs(r, 1), d), d, q, k - 1)

\* floor(u * 2^60 / d) for u < 2 * d, and the remainder
BDiv(u, d) == BDivNext(BDigit(u, d, 0), d, <<>>, 4)

\* The quotient rounded, the remainder sticky
DQuotient(neg, qr, e) == DRound(neg, qr.q, e, qr.r # <<>>)

\* x / y for y # 0: the mantissas, brought to 60 bits, divided to 60 bits
\* and rounded
DDiv(x, y) ==
    IF x.m = <<>> THEN DZero
    ELSE DQuotient(x.neg # y.neg, BDiv(BShl(x.m, 7), BShl(y.m, 7)),
                   x.e - y.e - 60)

\* x + y for the mantissas ax, ay brought to the common exponent e
DAddAligned(xneg, ax, yneg, ay, e) ==
    DRound(IF xneg = yneg \/ BCmp(ax, ay) >= 0 THEN xneg ELSE yneg,
           IF xneg = yneg THEN BAdd(ax, ay)
           ELSE IF BCmp(ax, ay) >= 0 THEN BSub(ax, ay)
           ELSE BSub(ay, ax),
           e, FALSE)

DAdd(x, y) ==
    IF x.m = <<>> THEN y
    ELSE IF y.m = <<>> THEN x
    ELSE IF x.e >= y.e
    THEN DAddAligned(x.neg, BShl(x.m, x.e - y.e), y.neg, y.m, y.e)
    ELSE DAddAligned(y.neg, BShl(y.m, y.e - x.e), x.neg, x.m, x.e)

DSub(x, y) == DAdd(x, DNeg(y))

\* |x| < |y|
DMagLt(x, y) ==
    IF y.m = <<>> THEN FALSE
    ELSE IF x.m = <<>> THEN TRUE
    ELSE x.e < y.e \/ (x.e = y.e /\ BCmp(x.m, y.m) < 0)

\* x < y
DLt(x, y) ==
    IF x.neg # y.neg THEN x.neg
    ELSE IF x.neg THEN DMagLt(y, x)
    ELSE DMagLt(x, y)

\* Math.min(x, y)
DMin(x, y) == IF DLt(y, x) THEN y ELSE x

\* k further base-2^15 digits of r / d (r < d < 2^16), the least significant
\* first
RECURSIVE FracLimbs(_, _, _)
FracLimbs(r, d, k) ==
    IF k = 0 THEN <<>>
    ELSE FracLimbs((r * 32768) % d, d, k - 1) \o <<(r * 32768) \div d>>

\* What remains of r / d after k digits
RECURSIVE FracRest(_, _, _)
FracRest(r, d, k) ==
    IF k = 0 THEN r ELSE FracRest((r * 32768) % d, d, k - 1)

\* The double nearest to n / d for 0 <= n, 0 < d < 2^16: n / d to 90 binary
\* places, rounded
DRatio(neg, n, d) ==
    DRound(neg, BNorm(FracLimbs(n % d, d, 6) \o BFromInt(n \div d)), -90,
           FracRest(n % d, d, 6) # 0)

\* The double a numeric literal or a parsed JSON number n/d denotes
D(r) ==
    IF r[2] < 65536 THEN DRatio(r[1] < 0, Abs(r[1]), r[2])
    ELSE DDiv(DFromInt(r[1]), DFromInt(r[2]))

\* The doubles of the numbers of a record
DoublesOf(r) == [f \in DOMAIN r |-> D(r[f])]

\* t.q gains one when the part cut off is one half or more
BRoundHalfUp(t) == IF t.half THEN BAdd(t.q, <<1>>) ELSE t.q

\* m * 2^e rounded to an integer, half up
BScaled(m, e) ==
    IF e >= 0 THEN BShl(m, e)
    ELSE BRoundHalfUp(BShrRound(m, -e, FALSE))

\* |x| * scale rounded to an integer, half up
DScaled(x, scale) == BToInt(BScaled(BMul(x.m, BFromInt(scale)), x.e))

\* x.toFixed(digits) for scale = 10^digits
DFixed(x, scale) ==
    Rat((IF x.neg THEN -1 ELSE 1) * DScaled(x, scale), scale)

\* parseFloat(x.toFixed(digits)) of the double x: the multiple of
\* 10^-digits nearest to the exact value of x, a tie going to the one larger
\* in magnitude
DToFixed(x, digits) ==
    IF x.m = <<>> THEN <<0, 1>> ELSE DFixed(x, Pow10(digits))

\* 2^52, the least 53-bit mantissa
MinMantissa == <<0, 0, 0, 128>>

\* How many doubles x lies beyond y, counted away from zero (x and y of the
\* same sign, at most one binade apart)
DPlacesBeyond(x, y) ==
    IF x.e = y.e /\ BCmp(x.m, y.m) >= 0 THEN BToInt(BSub(x.m, y.m))
    ELSE IF x.e = y.e THEN -BToInt(BSub(y.m, x.m))
    ELSE IF x.e = y.e + 1
    THEN BToInt(BSub(BAdd(x.m, MinMantissa), y.m))
    ELSE -BToInt(BSub(BAdd(y.m, MinMantissa), x.m))

\* The number the double x is, written on the rational r it approximates,
\* whose nearest double is dr: r when x is dr, else <<n, d, k>>, the double
\* k places beyond the one nearest to n/d
DValueAt(x, r, dr) ==
    IF x = dr THEN r ELSE <<r[1], r[2], DPlacesBeyond(x, dr)>>

----------------------------------------------------------------------------
(* A number <<n, d>> stands for the double nearest to n/d. The doubles of  *)
(* a computation stay within 2^-48 (relative) of the rationals they        *)
(* approximate, so a comparison or a rounding of the doubles agrees with   *)
(* the one of the rationals unless the rationals are closer than that to   *)
(* each other or to a rounding boundary; only then is the double computed. *)

\* The doubles of a and b may compare otherwise than a and b do: a = b, or
\* the cross products are too large to keep a # b 2^-46 apart
Near(a, b) ==
    \/ a = b
    \/ BitLenInt(Abs(a[1])) + BitLenInt(b[2]) > 46
    \/ BitLenInt(Abs(b[1])) + BitLenInt(a[2]) > 46

\* x * 10^digits = q + r/d is the boundary q + 1/2, or so close to it that a
\* double within scale * 2^-48 of it may round the other way
NearTie(q, r, d, scale) ==
    \/ r = d - r
    \/ BitLenInt(d) + BitLenInt(scale) > 46

\* <<floor(|x| * 10^digits), remainder>>
Scaled(x, digits) ==
    ScaleDiv(Abs(x[1]) \div x[2], Abs(x[1]) % x[2], x[2], digits)

\* NearTie for x.toFixed(digits), the double of x lying within
\* scale * 2^-48 * 10^-digits of x
OnTie(x, digits, scale) ==
    NearTie(Scaled(x, digits)[1], Scaled(x, digits)[2], x[2],
            scale + Scaled(x, digits)[1])

\* qr = <<q, r>> with |x| * 10^digits = q + r/d: rounded half up
RoundedUp(qr, d) == IF qr[2] >= d - qr[2] THEN qr[1] + 1 ELSE qr[1]

\* parseFloat(x.toFixed(digits)) of the rational x, a tie going to the
\* multiple larger in magnitude
RToFixed(x, digits) ==
    IF x[1] < 0 THEN Rat(-RoundedUp(Scaled(x, digits), x[2]), Pow10(digits))
    ELSE Rat(RoundedUp(Scaled(x, digits), x[2]), Pow10(digits))

\* parseFloat(x.toFixed(digits)) where x is the double dx, which lies within
\* scale * 2^-48 * 10^-digits of the rational rx
JsToFixed(rx, dx, digits, scale) ==
    IF OnTie(rx, digits, scale) THEN DToFixed(dx, digits)
    ELSE RToFixed(rx, digits)

\* parseFloat(x.toFixed(digits))
ToFixed(x, digits) == JsToFixed(x, D(x), digits, 1)

\* JavaScript truthiness of a number-or-undefined value.
Falsy(x) == x = Undefined \/ x[1] = 0

----------------------------------------------------------------------------
(* RiskManager                                                             *)

Null == [null |-> TRUE]
NotCalled == [pending |-> TRUE]

\* Variant of RiskFraction risking 4% of the balance.
RiskFractionDoubled == <<1, 25>>

RiskFraction == <<1, 50>>          \* balance * 0.02
MarginSafetyFactor == <<19, 20>>   \* * 0.95
MinTradeSize == <<1, 10000>>       \* 0.0001
DefaultLeverage == Num(10)
DefaultMarginBuffer == <<1, 100>>  \* 0.01

\* constructor(config): `config.x || default`
RiskManager(config) ==
    [ leverage     |-> IF Falsy(config.leverage) THEN DefaultLeverage
                       ELSE config.leverage,
      marginBuffer |-> IF Falsy(config.marginBuffer) THEN DefaultMarginBuffer
                       ELSE config.marginBuffer ]

\* sizeInUnits after Step 3, before the final safety checks and rounding:
\* the rational the double approximates
SizeInUnits(this, balance, lastPrice, stopDist) ==
    LET totalCapitalToRisk   == RMul(balance, RiskFraction)
        riskSize             == RDiv(totalCapitalToRisk, stopDist)
        maxSizeBasedOnMargin ==
            RMul(RDiv(RMul(balance, this.leverage), lastPrice), MarginSafetyFactor)
    IN  RMin(riskSize, maxSizeBasedOnMargin)

\* marginRequired: the rational the double approximates
MarginRequired(this, size, lastPrice) ==
    RMul(RDiv(RMul(size, lastPrice), this.leverage),
         RAdd(Num(1), this.marginBuffer))

\* The doubles of the inputs, the configuration and the literals
Doubles(this, balance, lastPrice, sl, tp) ==
    DoublesOf([ balance      |-> balance,
                lastPrice    |-> lastPrice,
                sl           |-> sl,
                tp           |-> tp,
                leverage     |-> this.leverage,
                marginBuffer |-> this.marginBuffer,
                risk         |-> RiskFraction,
                safety       |-> MarginSafetyFactor,
                minSize      |-> MinTradeSize,
                one          |-> Num(1) ])

\* sizeInUnits after Step 3: the double
SizeInUnitsDouble(d) ==
    DMin(DDiv(DMul(d.balance, d.risk), d.sl),
         DMul(DDiv(DMul(d.balance, d.leverage), d.lastPrice), d.safety))

\* marginRequired: the double
MarginRequiredDouble(d, size) ==
    DMul(DDiv(DMul(size, d.lastPrice), d.leverage), DAdd(d.one, d.marginBuffer))

\* The final safety checks and the trade parameters, on the doubles
checkedLevelsDouble(d, long, size) ==
    IF DLt(d.balance, MarginRequiredDouble(d, size)) THEN Null
    ELSE IF DLt(size, d.minSize) THEN Null
    ELSE [ size       |-> DToFixed(size, 4),
           stopLoss   |->
               DToFixed(DAdd(d.lastPrice, IF long THEN DNeg(d.sl) ELSE d.sl), 0),
           takeProfit |->
               DToFixed(DAdd(d.lastPrice, IF long THEN d.tp ELSE DNeg(d.tp)), 0) ]

\* calculateTradeParameters from Step 1 on, on the doubles
sizeAndLevelsDouble(d, long) == checkedLevelsDouble(d, long, SizeInUnitsDouble(d))

\* An integer above |x|
Ceiling(x) == (Abs(x[1]) \div x[2]) + 1

\* The final safety checks and the trade parameters for the exact
\* sizeInUnits; `inDoubles` is the outcome on the doubles, which decides
\* when a comparison or a rounding is on or near its boundary
checkedLevels(this, balance, lastPrice, long, sl, tp, sizeInUnits, inDoubles) ==
    IF \/ Near(MarginRequired(this, sizeInUnits, lastPrice), balance)
       \/ Near(sizeInUnits, MinTradeSize)
    THEN inDoubles
    ELSE IF RLt(balance, MarginRequired(this, sizeInUnits, lastPrice)) THEN Null
    ELSE IF RLt(sizeInUnits, MinTradeSize) THEN Null
    ELSE IF \/ OnTie(sizeInUnits, 4, 1)
            \/ OnTie(IF long THEN RSub(lastPrice, sl) ELSE RAdd(lastPrice, sl),
                     0, Ceiling(lastPrice) + Ceiling(sl))
            \/ OnTie(IF long THEN RAdd(lastPrice, tp) ELSE RSub(lastPrice, tp),
                     0, Ceiling(lastPrice) + Ceiling(tp))
    THEN inDoubles
    ELSE [ size       |-> RToFixed(sizeInUnits, 4),
           stopLoss   |->
               RToFixed(IF long THEN RSub(lastPrice, sl)
                        ELSE RAdd(lastPrice, sl), 0),
           takeProfit |->
               RToFixed(IF long THEN RAdd(lastPrice, tp)
                        ELSE RSub(lastPrice, tp), 0) ]

\* calculateTradeParameters from Step 1 on, the inputs being valid. Every
\* comparison and rounding is the one of the doubles.
sizeAndLevels(this, balance, lastPrice, signal, sl, tp) ==
    checkedLevels(this, balance, lastPrice, signal = "LONG", sl, tp,
                  SizeInUnits(this, balance, lastPrice, sl),
                  sizeAndLevelsDouble(Doubles(this, balance, lastPrice, sl, tp),
                                      signal = "LONG"))

\* Variant of calculateTradeParameters without the take-profit validation.
calculateTradeParametersNoTargetCheck(this, market, signal) ==
    LET balance   == market.balance
        lastPrice == market.lastPrice
        sl        == signal.stop_loss_distance_in_usd
        tp        == IF signal.take_profit_distance_in_usd = Undefined
                     THEN Num(0) ELSE signal.take_profit_distance_in_usd
    IN  IF Falsy(balance) \/ RLe(balance, Num(0)) THEN Null
        ELSE IF Falsy(sl) \/ RLe(sl, Num(0)) THEN Null
        ELSE sizeAndLevels(this, balance, lastPrice, signal.signal, sl, tp)

calculateTradeParameters(this, market, signal) ==
    LET balance   == market.balance
        lastPrice == market.lastPrice
        sl        == signal.stop_loss_distance_in_usd
        tp        == signal.take_profit_distance_in_usd
    IN  IF Falsy(balance) \/ RLe(balance, Num(0)) THEN Null
        ELSE IF Falsy(sl) \/ RLe(sl, Num(0)) THEN Null
        ELSE IF Falsy(tp) \/ RLe(tp, Num(0)) THEN Null
        ELSE sizeAndLevels(this, balance, lastPrice, signal.signal, sl, tp)

----------------------------------------------------------------------------
(* Inputs of the RiskManager specification                                 *)

\* Among the inputs are some whose exact size or margin lies on a boundary
\* the doubles decide: balance 3, price 5000, stop 14 under leverage 10 and
\* buffer 0.4 (margin = balance), balance 3/4, price 120, stop 100 (size
\* 0.00015).
Balances == { Undefined, Num(0), Num(-50), <<3, 4>>, <<4, 5>>, <<8, 5>>,
              Num(3), Num(7), Num(100), Num(10000) }
LastPrices == { Num(50000), <<250003, 5>>, Num(5000), Num(120), <<5, 2>> }
StopDistances == { Undefined, Num(0), Num(-1), <<1, 20>>, <<3, 10>>, Num(7),
                   Num(14), Num(100), Num(200) }
TargetDistances == { Undefined, Num(0), Num(-3), <<3, 10>>, <<1, 2>>, Num(300) }
Directions == { "LONG", "SHORT" }
MarginBuffers == { Undefined, <<1, 100>>, <<2, 5>> }
Leverages == { Undefined, Num(10), Num(2) }

NoOrder == [none |-> TRUE]

RiskIdle ==
    /\ rmConfig = [leverage |-> Undefined, marginBuffer |-> Undefined]
    /\ marketData = [balance |-> Undefined, lastPrice |-> Num(1)]
    /\ tradingSignal = [signal |-> "HOLD",
                        stop_loss_distance_in_usd |-> Undefined,
                        take_profit_distance_in_usd |-> Undefined]
    /\ tradeParams = NotCalled
    /\ rmPc = "idle"

PnlIdle ==
    /\ pnlFills = <<>>
    /\ pnlPc = "idle"
    /\ pnlIdx = 0
    /\ pnlQueue = <<>>
    /\ pnlStats = [realisedPnL |-> 0, winCount |-> 0, totalCloses |-> 0]

EntryIdle ==
    /\ botPc = "idle"
    /\ cycles = 0
    /\ liveEntry = NoOrder
    /\ simBalance = Num(0)
    /\ apiCalls = 0
    /\ simOpenTrade = NoOrder

\* No placeOrder call in progress.
NoCall == [none |-> TRUE]

ExecIdle ==
    /\ exPc = "idle"
    /\ exCall = NoCall
    /\ venueOrders = <<>>
    /\ batchLog = <<>>
    /\ sendCount = 0
    /\ allTrades = <<>>
    /\ sawOpen = FALSE

SignalIdle ==
    /\ sgIn = NoOrder
    /\ sgOut = NoOrder
    /\ sgPc = "idle"

SimIdle ==
    /\ btCfg = NoOrder
    /\ btCandles = <<>>
    /\ btIdx = 0
    /\ btPc = "idle"
    /\ btTrades = <<>>
    /\ btCalls = <<>>
    /\ btOpenedAt = 0

LedgerIdle ==
    /\ ldFile = <<>>
    /\ ldMem = <<>>
    /\ ldCallers = <<>>
    /\ ldAll = {}

MonitorIdle ==
    /\ moPc = "idle"
    /\ moElapsed = 0
    /\ moPolls = 0
    /\ moThrew = 0
    /\ moFilledAt = 0
    /\ moResult = "pending"

LoopIdle ==
    /\ lpPc = "idle"
    /\ lpRunning = 0
    /\ lpTimers = 0
    /\ lpCycles = 0
    /\ lpSuccessors = 0
    /\ lpMem = <<>>
    /\ lpFile = <<>>
    /\ lpSeen = {}
    /\ lpOutcome = "none"
    /\ lpLocal = <<>>
    /\ lpSaves = <<>>

MatchIdle ==
    /\ rawFills = <<>>
    /\ botStartTime = 0
    /\ fmPc = "idle"
    /\ fmFills = <<>>
    /\ fmIdx = 0
    /\ queue = <<>>
    /\ closed = <<>>
    /\ last10 = <<>>
    /\ matchLog = <<>>

RiskInit ==
    /\ MatchIdle
    /\ PnlIdle
    /\ EntryIdle
    /\ ExecIdle
    /\ SignalIdle
    /\ SimIdle
    /\ LedgerIdle
    /\ MonitorIdle
    /\ LoopIdle
    /\ rmConfig \in [leverage : Leverages, marginBuffer : MarginBuffers]
    /\ marketData \in [balance : Balances, lastPrice : LastPrices]
    /\ tradingSignal \in [signal : Directions,
                          stop_loss_distance_in_usd : StopDistances,
                          take_profit_distance_in_usd : TargetDistances]
    /\ tradeParams = NotCalled
    /\ rmPc = "ready"

CalculateTradeParameters ==
    /\ rmPc = "ready"
    /\ tradeParams' = calculateTradeParameters(RiskManager(rmConfig),
                                               marketData, tradingSignal)
    /\ rmPc' = "returned"
    /\ UNCHANGED <<rmConfig, marketData, tradingSignal>>
    /\ UNCHANGED <<matchVars, pnlVars, entryVars, execVars,
                 signalVars, simVars, ledgerVars, monitorVars, loopVars>>

RiskNext == CalculateTradeParameters

SpecRisk == RiskInit /\ [][RiskNext]_vars

----------------------------------------------------------------------------
(* Queue matcher: buildLast10ClosedFromRawFills                            *)

MaxFills == 3      \* longest fill stream explored
LastN == 10        \* n, as passed by _prompt

FillSides == { "buy", "sell" }
FillSizes == { 0, 1, 2 }
FillPrices == { 100, 101, 105 }
ReportOrders == { "newestFirst", "oldestFirst" }

Min(a, b) == IF a < b THEN a ELSE b

Reverse(seq) == [i \in 1 .. Len(seq) |-> seq[Len(seq) + 1 - i]]

\* Array.prototype.filter with f.fillTime >= BOT_START_TIME
RECURSIVE Eligible(_, _)
Eligible(seq, start) ==
    IF seq = <<>> THEN <<>>
    ELSE IF Head(seq).fillTime >= start
         THEN <<Head(seq)>> \o Eligible(Tail(seq), start)
         ELSE Eligible(Tail(seq), start)

\* closed.slice(-n)
SliceLast(seq, n) ==
    IF Len(seq) <= n THEN seq ELSE SubSeq(seq, Len(seq) - n + 1, Len(seq))

LotSide(f) == IF f.side = "buy" THEN "LONG" ELSE "SHORT"

\* A lot as pushed on the queue; openedAt (the index of the fill that opened
\* it) is a history field the code does not have.
NewLot(f, side, size, idx) ==
    [side |-> side, entryTime |-> f.fillTime, entryPrice |-> f.price,
     size |-> size, openedAt |-> idx]

ClosedTrade(open, f, match) ==
    [side |-> open.side, entryTime |-> open.entryTime,
     entryPrice |-> open.entryPrice, exitTime |-> f.fillTime,
     exitPrice |-> f.price, size |-> match,
     pnl |-> (f.price - open.entryPrice) * match
             * (IF open.side = "LONG" THEN 1 ELSE -1)]

LogEntry(st, open, match) ==
    [lot |-> open.openedAt, side |-> open.side, size |-> match,
     lotRemaining |-> open.size, fillRemaining |-> st.remaining,
     queueBefore |-> st.queue]

\* Variant of MatchStep that takes the newest lot (queue.pop) instead of the
\* oldest.
MatchStepNewestFirst(st, f) ==
    LET n     == Len(st.queue)
        open  == st.queue[n]
        match == Min(st.remaining, open.size)
        rest  == SubSeq(st.queue, 1, n - 1)
    IN  [queue     |-> IF open.size - match > 0
                       THEN Append(rest, [open EXCEPT !.size = @ - match])
                       ELSE rest,
         closed    |-> Append(st.closed, ClosedTrade(open, f, match)),
         remaining |-> st.remaining - match,
         log       |-> Append(st.log, LogEntry(st, open, match))]

\* Variant of MatchStep that closes the whole lot whatever is left of the fill.
MatchStepWholeLot(st, f) ==
    LET open  == Head(st.queue)
        match == open.size
    IN  [queue     |-> Tail(st.queue),
         closed    |-> Append(st.closed, ClosedTrade(open, f, match)),
         remaining |-> st.remaining - Min(st.remaining, match),
         log       |-> Append(st.log, LogEntry(st, open, match))]

\* One iteration of the while loop: shift the head, match, put it back if
\* anything is left of it.
MatchStep(st, f) ==
    LET open  == Head(st.queue)
        match == Min(st.remaining, open.size)
        rest  == Tail(st.queue)
    IN  [queue     |-> IF open.size - match > 0
                       THEN <<[open EXCEPT !.size = @ - match]>> \o rest
                       ELSE rest,
         closed    |-> Append(st.closed, ClosedTrade(open, f, match)),
         remaining |-> st.remaining - match,
         log       |-> Append(st.log, LogEntry(st, open, match))]

\* while (remaining > 0 && queue.length && queue[0].side !== side)
RECURSIVE MatchLoop(_, _, _)
MatchLoop(st, f, side) ==
    IF st.remaining > 0 /\ Len(st.queue) > 0 /\ st.queue[1].side # side
    THEN MatchLoop(MatchStep(st, f), f, side)
    ELSE st

\* The body of `for (const f of fills)`.
FillBody(q, cl, f, idx) ==
    LET side == LotSide(f)
    IN  IF Len(q) = 0 \/ q[Len(q)].side = side
        THEN [queue |-> Append(q, NewLot(f, side, f.size, idx)),
              closed |-> cl, log |-> <<>>]
        ELSE LET st == MatchLoop([queue |-> q, closed |-> cl,
                                  remaining |-> f.size, log |-> <<>>], f, side)
             IN  [queue  |-> IF st.remaining > 0
                             THEN Append(st.queue,
                                         NewLot(f, side, st.remaining, idx))
                             ELSE st.queue,
                  closed |-> st.closed,
                  log    |-> st.log]

\* The fills of a chronological stream get fill times 1, 2, ...; the venue
\* reports them newest first or oldest first.
Stamp(stream) ==
    [i \in 1 .. Len(stream) |->
        [side |-> stream[i][1], size |-> stream[i][2], price |-> stream[i][3],
         fillTime |-> i]]

Report(stream, order) ==
    IF order = "newestFirst" THEN Reverse(Stamp(stream)) ELSE Stamp(stream)

MatchInit ==
    /\ RiskIdle
    /\ PnlIdle
    /\ EntryIdle
    /\ ExecIdle
    /\ SignalIdle
    /\ SimIdle
    /\ LedgerIdle
    /\ MonitorIdle
    /\ LoopIdle
    /\ \E len \in 0 .. MaxFills :
         \E stream \in [1 .. len -> FillSides \X FillSizes \X FillPrices] :
           \E order \in ReportOrders :
             rawFills = Report(stream, order)
    /\ botStartTime \in { 1, 2 }
    /\ fmPc = "start"
    /\ fmFills = <<>>
    /\ fmIdx = 0
    /\ queue = <<>>
    /\ closed = <<>>
    /\ last10 = <<>>
    /\ matchLog = <<>>

\* Lines 18-27: the early returns, the cutoff filter and the reversal.
BuildStart ==
    /\ fmPc = "start"
    /\ LET eligible == Eligible(rawFills, botStartTime)
       IN  IF Len(rawFills) = 0 \/ Len(eligible) = 0
           THEN /\ fmPc' = "done"
                /\ fmFills' = <<>>
                /\ fmIdx' = 0
           ELSE /\ fmPc' = "loop"
                /\ fmFills' = Reverse(eligible)
                /\ fmIdx' = 1
    /\ UNCHANGED <<rawFills, botStartTime, queue, closed, last10, matchLog>>
    /\ UNCHANGED <<riskVars, pnlVars, entryVars, execVars,
                 signalVars, simVars, ledgerVars, monitorVars, loopVars>>

\* Lines 29-58: one iteration of the for loop.
ProcessFill ==
    /\ fmPc = "loop"
    /\ fmIdx <= Len(fmFills)
    /\ LET r == FillBody(queue, closed, fmFills[fmIdx], fmIdx)
       IN  /\ queue' = r.queue
           /\ closed' = r.closed
           /\ matchLog' = r.log
    /\ fmIdx' = fmIdx + 1
    /\ UNCHANGED <<rawFills, botStartTime, fmPc, fmFills, last10>>
    /\ UNCHANGED <<riskVars, pnlVars, entryVars, execVars,
                 signalVars, simVars, ledgerVars, monitorVars, loopVars>>

\* Lines 60-61: closed.slice(-n).reverse()
BuildReturn ==
    /\ fmPc = "loop"
    /\ fmIdx > Len(fmFills)
    /\ last10' = Reverse(SliceLast(closed, LastN))
    /\ fmPc' = "done"
    /\ UNCHANGED <<rawFills, botStartTime, fmFills, fmIdx, queue, closed,
                   matchLog>>
    /\ UNCHANGED <<riskVars, pnlVars, entryVars, execVars,
                 signalVars, simVars, ledgerVars, monitorVars, loopVars>>

MatchNext == BuildStart \/ ProcessFill \/ BuildReturn

SpecMatch == MatchInit /\ [][MatchNext]_vars

----------------------------------------------------------------------------
(* DataHandler.realizedPnlStatsFromFills                                   *)

Sign(x) == IF x > 0 THEN 1 ELSE IF x < 0 THEN -1 ELSE 0

\* while (size !== 0 && queue.length): st = [queue, size, stats], size signed
RECURSIVE PnlLoop(_, _)
PnlLoop(st, price) ==
    IF st.size # 0 /\ Len(st.queue) > 0
    THEN
      LET head      == st.queue[1]
          headQty   == IF head.side = "buy" THEN head.size ELSE -head.size
          matchQty  == Min(Abs(st.size), Abs(headQty))
          closeSide == IF st.size > 0 THEN "buy" ELSE "sell"
          openSide  == IF headQty > 0 THEN "buy" ELSE "sell"
          pnl       == (price - head.price) * matchQty * head.price
          stats     == IF closeSide # openSide
                       THEN [realisedPnL |-> st.stats.realisedPnL + pnl,
                             winCount    |-> st.stats.winCount
                                             + (IF pnl > 0 THEN 1 ELSE 0),
                             totalCloses |-> st.stats.totalCloses + 1]
                       ELSE st.stats
          q         == IF Abs(headQty) = matchQty
                       THEN Tail(st.queue)
                       ELSE [st.queue EXCEPT
                                ![1].size = @ - matchQty * Sign(headQty)]
      IN  PnlLoop([queue |-> q,
                   size  |-> st.size - matchQty * Sign(st.size),
                   stats |-> stats], price)
    ELSE st

\* The body of `for (const f of fills)`.
PnlBody(q, stats, f) ==
    LET signed == IF f.side = "sell" THEN -f.size ELSE f.size
        st     == PnlLoop([queue |-> q, size |-> signed, stats |-> stats],
                          f.price)
    IN  [queue |-> IF st.size # 0
                   THEN Append(st.queue,
                               [side  |-> IF st.size > 0 THEN "buy" ELSE "sell",
                                size  |-> Abs(st.size),
                                price |-> f.price])
                   ELSE st.queue,
         stats |-> st.stats]

PnlInit ==
    /\ RiskIdle
    /\ MatchIdle
    /\ EntryIdle
    /\ ExecIdle
    /\ SignalIdle
    /\ SimIdle
    /\ LedgerIdle
    /\ MonitorIdle
    /\ LoopIdle
    /\ \E len \in 0 .. MaxFills :
         \E stream \in [1 .. len -> FillSides \X FillSizes \X FillPrices] :
           pnlFills = [i \in 1 .. len |->
                          [side |-> stream[i][1], size |-> stream[i][2],
                           price |-> stream[i][3]]]
    /\ pnlPc = "loop"
    /\ pnlIdx = 1
    /\ pnlQueue = <<>>
    /\ pnlStats = [realisedPnL |-> 0, winCount |-> 0, totalCloses |-> 0]

\* One iteration of the for loop.
PnlProcessFill ==
    /\ pnlPc = "loop"
    /\ pnlIdx <= Len(pnlFills)
    /\ LET r == PnlBody(pnlQueue, pnlStats, pnlFills[pnlIdx])
       IN  /\ pnlQueue' = r.queue
           /\ pnlStats' = r.stats
    /\ pnlIdx' = pnlIdx + 1
    /\ UNCHANGED <<pnlFills, pnlPc>>
    /\ UNCHANGED <<riskVars, matchVars, entryVars, execVars,
                 signalVars, simVars, ledgerVars, monitorVars, loopVars>>

\* return { realisedPnL, winCount, totalCloses }
PnlReturn ==
    /\ pnlPc = "loop"
    /\ pnlIdx > Len(pnlFills)
    /\ pnlPc' = "done"
    /\ UNCHANGED <<pnlFills, pnlIdx, pnlQueue, pnlStats>>
    /\ UNCHANGED <<riskVars, matchVars, entryVars, execVars,
                 signalVars, simVars, ledgerVars, monitorVars, loopVars>>

PnlNext == PnlProcessFill \/ PnlReturn

SpecPnl == PnlInit /\ [][PnlNext]_vars

----------------------------------------------------------------------------
(* Paths that open a position: the live cycle (bot.js) and the backtest    *)
(* signal handler (backtestRunner.js)                                      *)

MaxCycles == 2       \* live cycles explored
MaxApiCalls == 2     \* Signal Source calls explored in one backtest run

MIN_CONF == Num(25)
MINIMUM_CONFIDENCE_THRESHOLD == Num(0)

LiveRiskConfig == [leverage |-> Num(10), marginBuffer |-> <<2, 5>>]
BacktestRiskConfig == [leverage |-> Num(10), marginBuffer |-> <<1, 100>>]

\* What fetchAllData can deliver: balance, last close, and whether the venue
\* reports an open position for PAIR.
LiveMarkets ==
    [balance : { Undefined, Num(0), Num(100), Num(10000) },
     lastPrice : { Num(50000), Num(120) },
     open : BOOLEAN]

\* What generateSignal can return: the parsed answer is not validated, so a
\* direction outside the schema ("BUY") is among the values.
Signals ==
    [signal : { "LONG", "SHORT", "HOLD" },
     confidence : { Undefined, JsNull, Num(0), Num(80) },
     stop_loss_distance_in_usd : { Num(0), Num(200) },
     take_profit_distance_in_usd : { Num(0), Num(300) }]
    \cup
    [signal : { "BUY" },
     confidence : { Num(80) },
     stop_loss_distance_in_usd : { Num(200) },
     take_profit_distance_in_usd : { Num(300) }]

\* sig.confidence >= threshold, with the coercion JavaScript applies.
ConfidenceAtLeast(sig, threshold) ==
    LET c == ToNumber(sig.confidence)
    IN  IsNumber(c) /\ RLe(threshold, c)

\* ExecutionHandler.placeOrder, entry step: the order handed to sendOrder,
\* with the stop and target it carries on to the exit orders.  market and
\* signal are history fields: the data the calling cycle worked from.
EntryOrder(signal, params, market, sig) ==
    [side       |-> IF signal = "LONG" THEN "buy" ELSE "sell",
     size       |-> params.size,
     stopLoss   |-> params.stopLoss,
     takeProfit |-> params.takeProfit,
     market     |-> [balance |-> market.balance, lastPrice |-> market.lastPrice],
     signal     |-> sig]

\* Math.round on a number
Round(x) ==
    LET twice == RAdd(RMul(x, Num(2)), Num(1))
    IN  Num(twice[1] \div (2 * twice[2]))

DebugOffset == Num(5000)
DebugSize == <<1, 10>>

\* placeInitialDebugOrder: a hardcoded LONG order of size 0.1.
placeInitialDebugOrder(market) ==
    EntryOrder("LONG",
               [size       |-> DebugSize,
                stopLoss   |-> Round(RSub(market.lastPrice, DebugOffset)),
                takeProfit |-> Round(RAdd(market.lastPrice, DebugOffset))],
               market,
               [signal |-> "LONG", confidence |-> Undefined,
                stop_loss_distance_in_usd |-> Undefined,
                take_profit_distance_in_usd |-> Undefined])

\* Variant of LiveBoot in which the call `await placeInitialDebugOrder()` is
\* active.
LiveBootWithDebugOrder ==
    /\ botPc = "boot"
    /\ botPc' = "running"
    /\ \E market \in LiveMarkets :
         liveEntry' = IF Falsy(market.lastPrice) THEN liveEntry
                      ELSE placeInitialDebugOrder(market)
    /\ UNCHANGED <<cycles, simBalance, apiCalls, simOpenTrade>>
    /\ UNCHANGED <<riskVars, matchVars, pnlVars, execVars,
                 signalVars, simVars, ledgerVars, monitorVars, loopVars>>

\* Module load of bot.js: the debug order call is commented out; loop() starts.
LiveBoot ==
    /\ botPc = "boot"
    /\ botPc' = "running"
    /\ UNCHANGED <<cycles, liveEntry, simBalance, apiCalls, simOpenTrade>>
    /\ UNCHANGED <<riskVars, matchVars, pnlVars, execVars,
                 signalVars, simVars, ledgerVars, monitorVars, loopVars>>

\* How far a cycle gets before its first early return for a reason outside
\* the data: API keys missing, fetchAllData throwing, generateSignal
\* throwing, or none of these.
CycleOutcomes == { "noKeys", "fetchFailed", "signalFailed", "ok" }

\* Lines 266-270, `if (params)`: the order placed for the trade parameters,
\* if there are any.
orderFor(params, market, sig) ==
    IF params # Null THEN EntryOrder(sig.signal, params, market, sig)
    ELSE NoOrder

\* Lines 259-270: the order placed for a signal that generateSignal
\* returned, if it passes the gate and the RiskManager returns parameters.
gatedOrder(market, sig) ==
    IF sig.signal # "HOLD" /\ ConfidenceAtLeast(sig, MIN_CONF)
    THEN orderFor(calculateTradeParameters(RiskManager(LiveRiskConfig),
                                           market, sig),
                  market, sig)
    ELSE NoOrder

\* The entry order one cycle sends, or NoOrder.
cycleEntry(outcome, market, sig) ==
    IF outcome \in { "noKeys", "fetchFailed" } THEN NoOrder
    ELSE IF market.balance = Undefined THEN NoOrder
    ELSE IF market.open THEN NoOrder
    ELSE IF outcome = "signalFailed" THEN NoOrder
    ELSE gatedOrder(market, sig)

\* The entry order on record after a cycle that sent `order` or none.
Latest(before, order) == IF order = NoOrder THEN before ELSE order

\* One run of cycle().
Cycle ==
    /\ botPc = "running"
    /\ cycles < MaxCycles
    /\ cycles' = cycles + 1
    /\ \E outcome \in CycleOutcomes, market \in LiveMarkets, sig \in Signals :
         liveEntry' = Latest(liveEntry, cycleEntry(outcome, market, sig))
    /\ UNCHANGED <<botPc, simBalance, apiCalls, simOpenTrade>>
    /\ UNCHANGED <<riskVars, matchVars, pnlVars, execVars,
                 signalVars, simVars, ledgerVars, monitorVars, loopVars>>

\* BacktestExecutionHandler.placeOrder: the simulated position that
\* getOpenTrade() returns afterwards.
BacktestPlaceOrder(order) ==
    [signal     |-> order.signal,
     size       |-> order.params.size,
     stopLoss   |-> order.params.stopLoss,
     takeProfit |-> order.params.takeProfit,
     entryPrice |-> order.entryPrice,
     market     |-> order.market,
     sig        |-> order.sig]

\* _handleSignal, `if (params?.size > 0)`: the position opened for
\* the trade parameters, if there are any.
openFor(params, market, candleClose, sig) ==
    IF params # Null /\ RLt(Num(0), params.size)
    THEN BacktestPlaceOrder([signal |-> sig.signal, params |-> params,
                             entryPrice |-> candleClose,
                             market |-> market, sig |-> sig])
    ELSE NoOrder

\* _handleSignal: the simulated position it opens, or NoOrder.  market is
\* { ohlc: window, balance: this.exec.balance }.
handleSignal(market, candleClose, sig) ==
    IF sig.signal # "HOLD"
       /\ ConfidenceAtLeast(sig, MINIMUM_CONFIDENCE_THRESHOLD)
    THEN openFor(calculateTradeParameters(RiskManager(BacktestRiskConfig),
                                          market, sig),
                 market, candleClose, sig)
    ELSE NoOrder

\* run(): one candle on which no trade is open and the call budget allows a
\* Signal Source call.
BacktestHandleSignal ==
    /\ simOpenTrade = NoOrder
    /\ apiCalls < MaxApiCalls
    /\ apiCalls' = apiCalls + 1
    /\ \E windowClose \in { Num(50000), Num(120) },
          candleClose \in { Num(50000), Num(50200) },
          sig \in Signals :
         simOpenTrade' = handleSignal([balance |-> simBalance,
                                       lastPrice |-> windowClose],
                                      candleClose, sig)
    /\ UNCHANGED <<botPc, cycles, liveEntry, simBalance>>
    /\ UNCHANGED <<riskVars, matchVars, pnlVars, execVars,
                 signalVars, simVars, ledgerVars, monitorVars, loopVars>>

EntryInit ==
    /\ RiskIdle
    /\ MatchIdle
    /\ PnlIdle
    /\ ExecIdle
    /\ SignalIdle
    /\ SimIdle
    /\ LedgerIdle
    /\ MonitorIdle
    /\ LoopIdle
    /\ botPc = "boot"
    /\ cycles = 0
    /\ liveEntry = NoOrder
    /\ simBalance \in { Num(10000), Num(100) }
    /\ apiCalls = 0
    /\ simOpenTrade = NoOrder

EntryNext == LiveBoot \/ Cycle \/ BacktestHandleSignal

SpecEntry == EntryInit /\ [][EntryNext]_vars

----------------------------------------------------------------------------
(* Live order execution: ExecutionHandler.placeOrder, monitorOrderFill and *)
(* placeExitOrders (executionHandler.js), called from cycle() (bot.js),    *)
(* against a venue that fills and closes orders on its own schedule        *)

MaxPolls == 2        \* polls explored within one monitorOrderFill call

RecentOrdersCount == 5

StopSlippage == <<1, 100>>

ExecMarket == [balance |-> Num(10000), lastPrice |-> Num(50000)]

\* Signals the Signal Source returns in these runs: two that the RiskManager
\* accepts under the live configuration, and HOLD.
ExecSignals ==
    { [signal |-> s, confidence |-> Num(80),
       stop_loss_distance_in_usd |-> Num(200),
       take_profit_distance_in_usd |-> Num(300)] :
          s \in { "LONG", "SHORT", "HOLD" } }

\* What `await this.api.sendOrder(...)` can do: throw, or resolve to
\* undefined, to a response with result 'error', or to a 'success' response
\* without or with sendstatus.
SendResponses ==
    { [throws |-> TRUE,  defined |-> FALSE, result |-> "none",    sendstatus |-> FALSE],
      [throws |-> FALSE, defined |-> FALSE, result |-> "none",    sendstatus |-> FALSE],
      [throws |-> FALSE, defined |-> TRUE,  result |-> "error",   sendstatus |-> FALSE],
      [throws |-> FALSE, defined |-> TRUE,  result |-> "success", sendstatus |-> FALSE],
      [throws |-> FALSE, defined |-> TRUE,  result |-> "success", sendstatus |-> TRUE] }

\* What `await this.api.batchOrder(...)` can do.
BatchResponses ==
    { [throws |-> TRUE,  defined |-> FALSE, result |-> "none"],
      [throws |-> FALSE, defined |-> FALSE, result |-> "none"],
      [throws |-> FALSE, defined |-> TRUE,  result |-> "error"],
      [throws |-> FALSE, defined |-> TRUE,  result |-> "success"] }

\* What `await this.api.getRecentOrders({ count: 5 })` can do: throw, resolve
\* to a response without orders, or report the venue's recent orders.
PollReports == { "throws", "noOrders", "orders" }

\* Variant of EntryAccepted that tests the result only, not sendstatus.
EntryAcceptedResultOnly(resp) ==
    ~ (~resp.defined \/ resp.result # "success")

\* Line 46, negated: the response passes the check.
EntryAccepted(resp) ==
    ~ (~resp.defined \/ resp.result # "success" \/ ~resp.sendstatus)

\* A placeOrder call as it starts: its arguments, and what it has done so
\* far (history).
NewCall(order) ==
    [signal      |-> IF order.side = "buy" THEN "LONG" ELSE "SHORT",
     params      |-> [size |-> order.size, stopLoss |-> order.stopLoss,
                      takeProfit |-> order.takeProfit],
     orderId     |-> 0,
     polls       |-> 0,
     sends       |-> 0,
     batches     |-> 0,
     entryResp   |-> NoOrder,
     filledOrder |-> NoOrder,
     timedOut    |-> FALSE,
     exitResp    |-> NoOrder,
     completion  |-> "pending"]

\* The venue's record of an accepted entry order.
VenueOrder(id, order) ==
    [orderId |-> id, side |-> order.side, size |-> order.size,
     status |-> "pending", filledSize |-> Num(0)]

\* The open positions of the pair on the venue.
VenuePositions ==
    { i \in 1 .. Len(venueOrders) : venueOrders[i].status = "filled" }

\* bot.js line 241: the positions of the pair that cycle() reads from the
\* fetched data, market.positions?.openPositions?.filter(...) || []: the
\* ones the venue has when the report is such an array, none when the data
\* has no positions.openPositions.
openPositions(outcome) == IF outcome = "ok" THEN VenuePositions ELSE {}

\* bot.js line 243: if (open.length)
PositionOpen(outcome) == openPositions(outcome) # {}

\* The orders the venue reports: the most recent ones, newest first.
RecentOrders(orders, count) ==
    LET recent == Reverse(SliceLast(orders, count))
    IN  [i \in 1 .. Len(recent) |->
            [orderId    |-> recent[i].orderId,
             isFilled   |-> recent[i].status \in { "filled", "closed" },
             filledSize |-> recent[i].filledSize]]

\* Variant of FindOrder that takes the first filled order whatever its id.
RECURSIVE FindFilledOrder(_, _)
FindFilledOrder(orders, orderId) ==
    IF orders = <<>> THEN NoOrder
    ELSE IF Head(orders).isFilled THEN Head(orders)
         ELSE FindFilledOrder(Tail(orders), orderId)

\* orders.find(o => o.orderId === orderId)
RECURSIVE FindOrder(_, _)
FindOrder(orders, orderId) ==
    IF orders = <<>> THEN NoOrder
    ELSE IF Head(orders).orderId = orderId THEN Head(orders)
         ELSE FindOrder(Tail(orders), orderId)

\* Lines 134-176: the batch payload.
ExitBatch(signal, size, stopLoss, takeProfit) ==
    LET closeSide == IF signal = "LONG" THEN "sell" ELSE "buy"
        stopLimitPrice ==
            IF closeSide = "sell"
            THEN Round(RMul(stopLoss, RSub(Num(1), StopSlippage)))
            ELSE Round(RMul(stopLoss, RAdd(Num(1), StopSlippage)))
    IN  << [order_tag |-> "stop-loss", orderType |-> "stp",
            side |-> closeSide, size |-> size,
            limitPrice |-> stopLimitPrice, stopPrice |-> stopLoss,
            reduceOnly |-> TRUE],
           [order_tag |-> "take-profit", orderType |-> "lmt",
            side |-> closeSide, size |-> size,
            limitPrice |-> takeProfit, reduceOnly |-> TRUE] >>

\* How placeExitOrders, and with it placeOrder, completes for a batchOrder
\* response: a throw (or the TypeError of reading .result of undefined) is
\* rethrown; any defined response is returned to placeOrder, which drops it.
ExitCompletion(resp) ==
    IF resp.throws \/ ~resp.defined THEN "threw" ELSE "undefined"

\* bot.js lines 274-283: the record pushed after placeOrder resolved; call
\* is a history field.
TradeRecord(call, lastPrice) ==
    [size |-> call.params.size, side |-> call.signal, price |-> lastPrice,
     stopLoss |-> call.params.stopLoss, takeProfit |-> call.params.takeProfit,
     pnl |-> Undefined, call |-> call]

ExecInit ==
    /\ RiskIdle
    /\ MatchIdle
    /\ PnlIdle
    /\ SignalIdle
    /\ SimIdle
    /\ LedgerIdle
    /\ MonitorIdle
    /\ LoopIdle
    /\ botPc = "running"
    /\ cycles = 0
    /\ liveEntry = NoOrder
    /\ simBalance = Num(0)
    /\ apiCalls = 0
    /\ simOpenTrade = NoOrder
    /\ exPc = "idle"
    /\ exCall = NoCall
    /\ venueOrders = <<>>
    /\ batchLog = <<>>
    /\ sendCount = 0
    /\ allTrades = <<>>
    /\ sawOpen = FALSE

ExecFrame == UNCHANGED <<riskVars, matchVars, pnlVars, botPc, simBalance,
                         apiCalls, simOpenTrade,
                         signalVars, simVars, ledgerVars, monitorVars, loopVars>>

\* The finally block of cycle() (lines 299-305), entered with allTrades =
\* trades: where cycle() waits next.
AfterTry(trades) == IF Len(trades) > 0 THEN "saving" ELSE "idle"

\* cycle() once the entry is decided: exec.placeOrder is called with the
\* order, or the try block ends without one.
entryDecided(order) ==
    IF order = NoOrder
    THEN /\ exPc' = AfterTry(allTrades)
         /\ UNCHANGED <<liveEntry, exCall>>
    ELSE /\ liveEntry' = order
         /\ exPc' = "send"
         /\ exCall' = NewCall(order)

\* cycle() from its call to `await data.fetchAllData(...)` (lines 169-188),
\* or to its finally block when the API keys are missing.
LiveCycle ==
    /\ botPc = "running"
    /\ exPc = "idle"
    /\ cycles < MaxCycles
    /\ cycles' = cycles + 1
    /\ sawOpen' = FALSE
    /\ \E keys \in BOOLEAN :
         exPc' = IF keys THEN "fetch" ELSE AfterTry(allTrades)
    /\ UNCHANGED <<liveEntry, exCall, venueOrders, batchLog, sendCount,
                   allTrades>>
    /\ ExecFrame

\* What fetchAllData brings: it throws, or the data is incomplete, or
\* openPositions is not an array (line 241 throws into the outer catch), or
\* the answer of getOpenPositions, which fetchOpenPositions passes on as it
\* is, has no openPositions, or the data is complete with the positions the
\* venue has now.
FetchOutcomes ==
    { "fetchFailed", "invalidData", "throws", "noPositions", "ok" }

\* Lines 189-251: where cycle() waits next once fetchAllData is settled: at
\* `await strat.generateSignal(market)` when the data is complete and no
\* position of the pair is read from it, else in or after its finally
\* block.
afterFetch(outcome, open, trades) ==
    IF outcome \in { "noPositions", "ok" } /\ ~open THEN "signal"
    ELSE AfterTry(trades)

\* cycle() resumes after fetchAllData (lines 189-251).  The last price is
\* the entry price of every record, so the PnL completion block (lines
\* 207-238) changes none.
CycleFetched ==
    /\ exPc = "fetch"
    /\ \E outcome \in FetchOutcomes :
         /\ sawOpen' = PositionOpen(outcome)
         /\ exPc' = afterFetch(outcome, PositionOpen(outcome), allTrades)
    /\ UNCHANGED <<cycles, liveEntry, exCall, venueOrders, batchLog,
                   sendCount, allTrades>>
    /\ ExecFrame

\* cycle() resumes after generateSignal (lines 252-270): it threw, or the
\* signal is gated and sized and exec.placeOrder is called, or the try
\* block ends without an order.
CycleSignalled ==
    /\ exPc = "signal"
    /\ \E throws \in BOOLEAN, sig \in ExecSignals :
         entryDecided(IF throws THEN NoOrder ELSE gatedOrder(ExecMarket, sig))
    /\ UNCHANGED <<cycles, venueOrders, batchLog, sendCount, allTrades,
                   sawOpen>>
    /\ ExecFrame

\* placeOrder lines 30-52: the entry order is sent and the response checked.
SendOrder ==
    /\ exPc = "send"
    /\ sendCount' = sendCount + 1
    /\ \E resp \in SendResponses :
         IF ~resp.throws /\ EntryAccepted(resp)
         THEN LET accepted == resp.result = "success" /\ resp.sendstatus
                  id == IF accepted THEN Len(venueOrders) + 1 ELSE 0
              IN  /\ venueOrders' =
                        IF accepted
                        THEN Append(venueOrders, VenueOrder(id, liveEntry))
                        ELSE venueOrders
                  /\ exCall' = [exCall EXCEPT !.sends = @ + 1,
                                              !.entryResp = resp,
                                              !.orderId = id]
                  /\ exPc' = "monitor"
         ELSE /\ exCall' = [exCall EXCEPT !.sends = @ + 1,
                                          !.entryResp = resp,
                                          !.completion = "threw"]
              /\ exPc' = "caller"
              /\ UNCHANGED venueOrders
    /\ UNCHANGED <<cycles, liveEntry, batchLog, allTrades, sawOpen>>
    /\ ExecFrame

\* monitorOrderFill lines 95-115: one pass of the polling loop.
MonitorPoll ==
    /\ exPc = "monitor"
    /\ exCall.polls < MaxPolls
    /\ \E report \in PollReports :
         LET orders == IF report = "orders"
                       THEN RecentOrders(venueOrders, RecentOrdersCount)
                       ELSE <<>>
             order  == FindOrder(orders, exCall.orderId)
         IN  IF order # NoOrder /\ order.isFilled
             THEN /\ exCall' = [exCall EXCEPT !.polls = @ + 1,
                                              !.filledOrder = order]
                  /\ exPc' = "exits"
             ELSE /\ exCall' = [exCall EXCEPT !.polls = @ + 1]
                  /\ exPc' = exPc
    /\ UNCHANGED <<cycles, liveEntry, venueOrders, batchLog, sendCount,
                   allTrades, sawOpen>>
    /\ ExecFrame

\* monitorOrderFill lines 117-118 and placeOrder lines 57-61: the time budget
\* is used up (after at least one pass), null is returned and placeOrder
\* returns undefined.
MonitorTimeout ==
    /\ exPc = "monitor"
    /\ exCall.polls >= 1
    /\ exCall' = [exCall EXCEPT !.timedOut = TRUE, !.completion = "undefined"]
    /\ exPc' = "caller"
    /\ UNCHANGED <<cycles, liveEntry, venueOrders, batchLog, sendCount,
                   allTrades, sawOpen>>
    /\ ExecFrame

\* placeOrder lines 63-76 and placeExitOrders: the batch is built and sent.
PlaceExitOrders ==
    /\ exPc = "exits"
    /\ \E resp \in BatchResponses :
         /\ batchLog' = Append(batchLog,
                [orderId  |-> exCall.orderId,
                 batch    |-> ExitBatch(exCall.signal, exCall.params.size,
                                        exCall.params.stopLoss,
                                        exCall.params.takeProfit),
                 accepted |-> ~resp.throws /\ resp.defined
                              /\ resp.result = "success"])
         /\ exCall' = [exCall EXCEPT !.batches = @ + 1,
                                     !.exitResp = resp,
                                     !.completion = ExitCompletion(resp)]
    /\ exPc' = "caller"
    /\ UNCHANGED <<cycles, liveEntry, venueOrders, sendCount, allTrades,
                   sawOpen>>
    /\ ExecFrame

\* cycle() lines 271-303: placeOrder has resolved or thrown; the trade
\* record is pushed or the error caught, and the finally block is entered.
CycleResume ==
    /\ exPc = "caller"
    /\ allTrades' = IF exCall.completion = "threw" THEN allTrades
                    ELSE Append(allTrades,
                                TradeRecord(exCall, ExecMarket.lastPrice))
    /\ exPc' = AfterTry(allTrades')
    /\ UNCHANGED <<cycles, liveEntry, exCall, venueOrders, batchLog,
                   sendCount, sawOpen>>
    /\ ExecFrame

\* The finally block of cycle(), lines 302-304: saveTradesToFile has written
\* trades.json and emptied allTrades (bot.js line 51), or its write failed
\* and allTrades is as it was; cycle() ends.
CycleFinally ==
    /\ exPc = "saving"
    /\ \E written \in BOOLEAN :
         allTrades' = IF written THEN <<>> ELSE allTrades
    /\ exPc' = "idle"
    /\ UNCHANGED <<cycles, liveEntry, exCall, venueOrders, batchLog,
                   sendCount, sawOpen>>
    /\ ExecFrame

\* The venue fills a pending entry order, wholly or in part.
VenueFill ==
    /\ \E i \in 1 .. Len(venueOrders) :
         /\ venueOrders[i].status = "pending"
         /\ \E part \in { Num(1), <<1, 2>> } :
              venueOrders' = [venueOrders EXCEPT
                                 ![i].status = "filled",
                                 ![i].filledSize =
                                     RMul(venueOrders[i].size, part)]
    /\ UNCHANGED <<cycles, liveEntry, exPc, exCall, batchLog, sendCount,
                   allTrades, sawOpen>>
    /\ ExecFrame

\* One of the accepted exit orders of a filled entry executes and closes it.
VenueExit ==
    /\ \E i \in 1 .. Len(venueOrders) :
         /\ venueOrders[i].status = "filled"
         /\ \E k \in 1 .. Len(batchLog) :
              batchLog[k].accepted
              /\ batchLog[k].orderId = venueOrders[i].orderId
         /\ venueOrders' = [venueOrders EXCEPT ![i].status = "closed"]
    /\ UNCHANGED <<cycles, liveEntry, exPc, exCall, batchLog, sendCount,
                   allTrades, sawOpen>>
    /\ ExecFrame

ExecNext ==
    \/ LiveCycle
    \/ CycleFetched
    \/ CycleSignalled
    \/ SendOrder
    \/ MonitorPoll
    \/ MonitorTimeout
    \/ PlaceExitOrders
    \/ CycleResume
    \/ CycleFinally
    \/ VenueFill
    \/ VenueExit

SpecExec == ExecInit /\ [][ExecNext]_vars

----------------------------------------------------------------------------
(* Properties of RiskManager.calculateTradeParameters (SpecRisk)           *)

Returned == rmPc = "returned" /\ tradeParams # Null

ThisRisk == RiskManager(rmConfig)

StopDist == tradingSignal.stop_loss_distance_in_usd
TargetDist == tradingSignal.take_profit_distance_in_usd

RoundingEps == <<1, 20000>>    \* 0.00005, half of the 4-decimal size step

\* C1: whenever parameters are returned, size * stop_loss_distance is at most
\* 0.02 * balance + 0.00005 * stop_loss_distance.
C1_RiskBound ==
    Returned =>
        RLe(RMul(tradeParams.size, StopDist),
            RAdd(RMul(marketData.balance, <<1, 50>>),
                 RMul(RoundingEps, StopDist)))

\* The 2% sizing was binding and the rounding went up: the returned size
\* risks strictly more than 2% of the balance, within the epsilon.
C1_Witness ==
    /\ Returned
    /\ RLt(RMul(marketData.balance, <<1, 50>>),
           RMul(tradeParams.size, StopDist))

\* C2 (as claimed): whenever parameters are returned, the margin required by
\* the returned size, size * lastPrice / leverage, does not exceed balance.
C2_MarginWithinBalance ==
    Returned =>
        RLe(RDiv(RMul(tradeParams.size, marketData.lastPrice),
                 ThisRisk.leverage),
            marketData.balance)

\* The size and margin of the specification, computed from the inputs.
SpecSize ==
    RMin(RDiv(RMul(marketData.balance, <<1, 50>>), StopDist),
         RMul(RDiv(RMul(marketData.balance, ThisRisk.leverage),
                   marketData.lastPrice), <<19, 20>>))

SpecMargin ==
    RMul(RDiv(RMul(SpecSize, marketData.lastPrice), ThisRisk.leverage),
         RAdd(Num(1), ThisRisk.marginBuffer))

NonPositive(x) == x = Undefined \/ RLe(x, Num(0))

RejectCase ==
    \/ NonPositive(marketData.balance)
    \/ NonPositive(StopDist)
    \/ NonPositive(TargetDist)
    \/ RLt(SpecSize, <<1, 10000>>)
    \/ RLt(marketData.balance, SpecMargin)

\* C3: in each reject case (balance, stop or target distance missing or
\* <= 0, computed size below 0.0001, buffered margin above balance) the call
\* returns null, and every returned size is > 0.
C3_RejectCases ==
    rmPc = "returned" =>
        /\ RejectCase => tradeParams = Null
        /\ tradeParams # Null => RLt(Num(0), tradeParams.size)

\* A call with valid balance and distances and a tradeable size that is
\* rejected by the buffered-margin check alone.
C3_Witness ==
    /\ rmPc = "returned"
    /\ tradeParams = Null
    /\ ~NonPositive(marketData.balance)
    /\ ~NonPositive(StopDist)
    /\ ~NonPositive(TargetDist)
    /\ ~RLt(SpecSize, <<1, 10000>>)
    /\ RLt(marketData.balance, SpecMargin)

ScenarioAInput ==
    /\ marketData = [balance |-> Num(10000), lastPrice |-> Num(50000)]
    /\ tradingSignal = [signal |-> "LONG",
                        stop_loss_distance_in_usd |-> Num(100),
                        take_profit_distance_in_usd |-> Num(300)]
    /\ rmConfig.leverage = Num(10)
    /\ rmConfig.marginBuffer \in {<<1, 100>>, <<2, 5>>}

\* C4 (as claimed): scenario A returns size 1.9, stopLoss 49900, takeProfit
\* 50300 under the backtest configuration (marginBuffer 0.01) and under the
\* live configuration (marginBuffer 0.4).
C4_ScenarioA ==
    (rmPc = "returned" /\ ScenarioAInput) =>
        tradeParams = [size |-> <<19, 10>>, stopLoss |-> Num(49900),
                       takeProfit |-> Num(50300)]

\* C5 (as claimed): for every returned TradeParameters, LONG has
\* stopLoss < lastPrice < takeProfit and SHORT has
\* takeProfit < lastPrice < stopLoss.
C5_StopTargetSides ==
    Returned =>
        IF tradingSignal.signal = "LONG"
        THEN /\ RLt(tradeParams.stopLoss, marketData.lastPrice)
             /\ RLt(marketData.lastPrice, tradeParams.takeProfit)
        ELSE /\ RLt(tradeParams.takeProfit, marketData.lastPrice)
             /\ RLt(marketData.lastPrice, tradeParams.stopLoss)

----------------------------------------------------------------------------
(* Properties of buildLast10ClosedFromRawFills (SpecMatch)                 *)

RECURSIVE SumSize(_)
SumSize(seq) == IF seq = <<>> THEN 0 ELSE Head(seq).size + SumSize(Tail(seq))

\* C7: every match is made against the oldest lot still open: at the moment
\* of a match no lot of the same side with remaining size > 0 was opened
\* before the matched lot, and one fill consumes lots in opening order.
C7_FifoOrder ==
    \A k \in 1 .. Len(matchLog) :
        /\ \A j \in 1 .. Len(matchLog[k].queueBefore) :
              LET l == matchLog[k].queueBefore[j]
              IN  (l.side = matchLog[k].side /\ l.size > 0)
                      => l.openedAt >= matchLog[k].lot
        /\ k > 1 => matchLog[k - 1].lot <= matchLog[k].lot

\* A match made while two lots with remaining size were queued.
C7_Witness ==
    \E k \in 1 .. Len(matchLog) :
        /\ matchLog[k].size > 0
        /\ Len(matchLog[k].queueBefore) >= 2
        /\ \A j \in 1 .. 2 : matchLog[k].queueBefore[j].size > 0

\* The fill processed last and the remainder of it that was queued.
LastFill == fmFills[fmIdx - 1]

PushedSize ==
    IF \E j \in 1 .. Len(queue) : queue[j].openedAt = fmIdx - 1
    THEN (CHOOSE l \in { queue[j] : j \in 1 .. Len(queue) } :
              l.openedAt = fmIdx - 1).size
    ELSE 0

\* C8: each fill's size is the sum of the trades it produced plus the
\* remainder queued as a new lot; each trade is no larger than what was left
\* of its lot and of its fill; and the emitted trade sizes add up to the
\* matched volume (fill volume processed = open volume + 2 * matched volume).
C8_SizeConservation ==
    (fmPc = "loop" /\ fmIdx > 1) =>
        /\ LastFill.size = SumSize(matchLog) + PushedSize
        /\ \A k \in 1 .. Len(matchLog) :
              /\ matchLog[k].size <= matchLog[k].lotRemaining
              /\ matchLog[k].size <= matchLog[k].fillRemaining
        /\ SumSize(SubSeq(fmFills, 1, fmIdx - 1))
              = SumSize(queue) + 2 * SumSize(closed)

\* A closing fill that closed a lot and queued its remainder (a flip).
C8_Witness ==
    /\ fmPc = "loop"
    /\ fmIdx > 1
    /\ Len(matchLog) >= 1
    /\ matchLog[1].size > 0
    /\ PushedSize > 0

ScenarioBFills ==
    << [side |-> "buy",  size |-> 1, price |-> 100, fillTime |-> 1],
       [side |-> "buy",  size |-> 1, price |-> 101, fillTime |-> 2],
       [side |-> "sell", size |-> 2, price |-> 105, fillTime |-> 3] >>

ScenarioBTrades ==
    { [side |-> "LONG", entryTime |-> 1, entryPrice |-> 100, exitTime |-> 3,
       exitPrice |-> 105, size |-> 1, pnl |-> 5],
      [side |-> "LONG", entryTime |-> 2, entryPrice |-> 101, exitTime |-> 3,
       exitPrice |-> 105, size |-> 1, pnl |-> 4] }

\* C9 (as claimed): the fills buy 1@100, buy 1@101, sell 2@105, passed in
\* that chronological order and all after the cutoff, give exactly the two
\* trades (100 -> 105, size 1, pnl 5) and (101 -> 105, size 1, pnl 4).
C9_ScenarioB ==
    (fmPc = "done" /\ rawFills = ScenarioBFills /\ botStartTime = 1) =>
        /\ Len(last10) = 2
        /\ { last10[i] : i \in 1 .. Len(last10) } = ScenarioBTrades

\* The whole function on an input array: the for loop folded over the
\* reversed eligible fills, then the last n trades, newest first.
RECURSIVE MatchAll(_, _, _, _)
MatchAll(fills, idx, q, cl) ==
    IF idx > Len(fills) THEN cl
    ELSE LET r == FillBody(q, cl, fills[idx], idx)
         IN  MatchAll(fills, idx + 1, r.queue, r.closed)

buildLast10ClosedFromRawFills(raw, start, n) ==
    LET eligible == Eligible(raw, start)
    IN  IF Len(raw) = 0 \/ Len(eligible) = 0 THEN <<>>
        ELSE Reverse(SliceLast(MatchAll(Reverse(eligible), 1, <<>>, <<>>), n))

RECURSIVE WithoutZeroSize(_)
WithoutZeroSize(seq) ==
    IF seq = <<>> THEN <<>>
    ELSE IF Head(seq).size = 0 THEN WithoutZeroSize(Tail(seq))
         ELSE <<Head(seq)>> \o WithoutZeroSize(Tail(seq))

\* C11 (as claimed): a fill of size 0 creates no open lot and causes no
\* closed trade (none of size 0 in particular), the returned trades are those
\* of the same input with the zero-size fills removed, and empty input gives
\* empty output.
C11_ZeroSizeFillsIgnored ==
    /\ \A j \in 1 .. Len(queue) : queue[j].size > 0
    /\ \A k \in 1 .. Len(closed) : closed[k].size > 0
    /\ fmPc = "done" =>
          /\ last10 = buildLast10ClosedFromRawFills(WithoutZeroSize(rawFills),
                                                    botStartTime, LastN)
          /\ rawFills = <<>> => last10 = <<>>

\* The same fills as the venue would report them in the opposite order.
OtherOrder(raw) == Reverse(raw)

\* C12 (as claimed): the fills are processed in non-decreasing fillTime
\* order whatever the order of the input array, so the returned trades are
\* the same for the newest-first and the oldest-first report of one stream.
C12_ChronologicalOrder ==
    /\ fmPc = "loop" =>
          \A i, j \in 1 .. Len(fmFills) :
              i < j => fmFills[i].fillTime <= fmFills[j].fillTime
    /\ fmPc = "done" =>
          last10 = buildLast10ClosedFromRawFills(OtherOrder(rawFills),
                                                 botStartTime, LastN)

----------------------------------------------------------------------------
(* Properties of realizedPnlStatsFromFills (SpecPnl)                       *)

\* FIFO matching as the specification describes it, on a chronological
\* stream: the pnl of every match, in matching order.  Zero-size fills are
\* ignored.
RECURSIVE FifoConsume(_, _, _, _)
FifoConsume(q, rem, f, pnls) ==
    IF rem > 0 /\ q # <<>> /\ Head(q).side # f.side
    THEN LET lot == Head(q)
             m   == Min(rem, lot.size)
             pnl == (f.price - lot.price) * m
                    * (IF lot.side = "buy" THEN 1 ELSE -1)
         IN  FifoConsume(IF lot.size > m
                         THEN <<[lot EXCEPT !.size = @ - m]>> \o Tail(q)
                         ELSE Tail(q),
                         rem - m, f, Append(pnls, pnl))
    ELSE [queue |-> q, rem |-> rem, pnls |-> pnls]

RECURSIVE FifoPnls(_, _)
FifoPnls(stream, q) ==
    IF stream = <<>> THEN <<>>
    ELSE LET f == Head(stream)
         IN  IF f.size = 0 THEN FifoPnls(Tail(stream), q)
             ELSE IF q = <<>> \/ Head(q).side = f.side
                  THEN FifoPnls(Tail(stream), Append(q, f))
                  ELSE LET r == FifoConsume(q, f.size, f, <<>>)
                       IN  r.pnls \o
                           FifoPnls(Tail(stream),
                                    IF r.rem > 0
                                    THEN Append(r.queue, [f EXCEPT !.size = r.rem])
                                    ELSE r.queue)

RECURSIVE SumSeq(_)
SumSeq(seq) == IF seq = <<>> THEN 0 ELSE Head(seq) + SumSeq(Tail(seq))

\* C10 (as claimed): on every chronological fill sequence totalCloses is the
\* number of FIFO matches, realisedPnL the sum of their pnl
\* (fillPrice - lotPrice) * matchedSize * (+1 for a buy lot, -1 for a sell
\* lot), and winCount the number of matches with positive pnl.
C10_PnlAgreesWithFifo ==
    pnlPc = "done" =>
        LET pnls == FifoPnls(pnlFills, <<>>)
        IN  /\ pnlStats.totalCloses = Len(pnls)
            /\ pnlStats.realisedPnL = SumSeq(pnls)
            /\ pnlStats.winCount
                 = Cardinality({ k \in 1 .. Len(pnls) : pnls[k] > 0 })

----------------------------------------------------------------------------
(* Properties of the position-opening paths (SpecEntry)                    *)

FromRiskSizer(order, config, sig) ==
    LET r == calculateTradeParameters(RiskManager(config), order.market, sig)
    IN  /\ r # Null
        /\ order.size = r.size
        /\ order.stopLoss = r.stopLoss
        /\ order.takeProfit = r.takeProfit

\* C6: every entry order sent to the venue and every simulated position
\* carries the size, stop and target that calculateTradeParameters returned
\* (non-null) for the market data and signal of the cycle that opened it.
C6_EntriesPassRiskSizer ==
    /\ liveEntry # NoOrder
          => FromRiskSizer(liveEntry, LiveRiskConfig, liveEntry.signal)
    /\ simOpenTrade # NoOrder
          => FromRiskSizer(simOpenTrade, BacktestRiskConfig, simOpenTrade.sig)

\* The live bot has sent an entry order and a backtest run has opened a
\* simulated position.
C6_Witness == liveEntry # NoOrder /\ simOpenTrade # NoOrder

----------------------------------------------------------------------------
(* Properties of the live order execution (SpecExec)                       *)

InCall == exCall # NoCall

\* The entry submission failed: sendOrder threw, or its response is missing,
\* not result 'success', or lacks sendstatus.
EntryFailed ==
    /\ InCall
    /\ exCall.entryResp # NoOrder
    /\ \/ exCall.entryResp.throws
       \/ ~exCall.entryResp.defined
       \/ exCall.entryResp.result # "success"
       \/ ~exCall.entryResp.sendstatus

\* C13: when the entry submission fails, that placeOrder call submits no
\* exit batch, has called sendOrder exactly once, and throws to its caller.
C13_EntryFailureAborts ==
    EntryFailed =>
        /\ exCall.batches = 0
        /\ exCall.sends = 1
        /\ exCall.completion = "threw"
        /\ exPc \notin { "send", "monitor", "exits" }

\* A call whose entry response said 'success' but had no sendstatus has
\* thrown, and the cycle has caught it.
C13_Witness ==
    /\ EntryFailed
    /\ exCall.entryResp.result = "success"
    /\ exPc = "idle"

BatchesFor(id) == { k \in 1 .. Len(batchLog) : batchLog[k].orderId = id }

\* C14: a batch is submitted only after a poll reported the order with the
\* entry's id as filled (and the venue had filled that order), and at most
\* once per placeOrder call.
C14_ExitsAfterFill ==
    /\ InCall =>
          /\ exCall.batches <= 1
          /\ exCall.batches = 1 =>
                /\ exCall.filledOrder # NoOrder
                /\ exCall.filledOrder.orderId = exCall.orderId
                /\ exCall.filledOrder.isFilled
    /\ \A k \in 1 .. Len(batchLog) :
          /\ batchLog[k].orderId \in 1 .. Len(venueOrders)
          /\ venueOrders[batchLog[k].orderId].status \in { "filled", "closed" }

\* The exit batch of a second entry was submitted while an earlier entry
\* order, already filled, was also in the venue's recent orders.
C14_Witness ==
    /\ InCall
    /\ exCall.batches = 1
    /\ exCall.orderId = 2
    /\ venueOrders[1].status = "filled"

\* How placeOrder completes when the entry filled and the exits were placed.
SuccessCompletion ==
    ExitCompletion([throws |-> FALSE, defined |-> TRUE, result |-> "success"])

\* C15 (as claimed): on a poll timeout placeOrder submits no exit batch, it
\* completes in a way that differs from a filled entry with exits placed,
\* and the cycle records no trade for the timed-out entry.
C15_TimeoutSignalled ==
    /\ (InCall /\ exCall.timedOut) =>
          /\ exCall.batches = 0
          /\ exCall.completion # SuccessCompletion
    /\ \A k \in 1 .. Len(allTrades) : ~allTrades[k].call.timedOut

\* The exit batch submission failed: batchOrder threw or its response has a
\* result other than 'success'.
ExitFailed ==
    /\ InCall
    /\ exCall.exitResp # NoOrder
    /\ \/ exCall.exitResp.throws
       \/ ~exCall.exitResp.defined
       \/ exCall.exitResp.result # "success"

\* C16 (as claimed): when the exit batch fails after a filled entry,
\* placeOrder completes in a way that differs from success and the batch is
\* not resubmitted.
C16_ExitFailureReported ==
    ExitFailed =>
        /\ exCall.completion # SuccessCompletion
        /\ exCall.batches = 1

\* C17 (as claimed): every submitted exit batch holds exactly a stop order
\* and a take-profit limit order, both reduceOnly, both on the side opposite
\* to the entry, both sized to the quantity the venue filled for the entry.
C17_ExitBatchShape ==
    \A k \in 1 .. Len(batchLog) :
        LET batch == batchLog[k].batch
            entry == venueOrders[batchLog[k].orderId]
        IN  /\ Len(batch) = 2
            /\ batch[1].orderType = "stp"
            /\ batch[2].orderType = "lmt"
            /\ \A j \in 1 .. 2 :
                  /\ batch[j].reduceOnly
                  /\ batch[j].side # entry.side
                  /\ batch[j].size = entry.filledSize

\* A position is open on the venue and its exit orders are placed.
ProtectedOpen ==
    \E i \in 1 .. Len(venueOrders) :
        /\ venueOrders[i].status = "filled"
        /\ \E k \in BatchesFor(venueOrders[i].orderId) : batchLog[k].accepted

\* C18 (as claimed): while a position is open with its exit orders placed,
\* no step submits an entry order or an exit batch; and no entry order ever
\* has more than one exit batch submitted for it.
C18_Idempotent ==
    [][ /\ ProtectedOpen =>
              /\ sendCount' = sendCount
              /\ batchLog' = batchLog
        /\ \A i \in 1 .. Len(venueOrders') :
              Cardinality({ k \in 1 .. Len(batchLog') :
                              batchLog'[k].orderId = i }) <= 1 ]_vars

\* The part that holds: no entry order ever has more than one exit batch
\* submitted for it.
C18_OneBatchPerEntry ==
    \A i \in 1 .. Len(venueOrders) : Cardinality(BatchesFor(i)) <= 1

\* C19 (as claimed): once a cycle has found a position open on the venue,
\* every open position has its exit batch in place when that cycle ends.
C19_Recovery ==
    (exPc = "idle" /\ sawOpen) =>
        \A i \in 1 .. Len(venueOrders) :
            venueOrders[i].status = "filled" =>
                \E k \in BatchesFor(venueOrders[i].orderId) :
                    batchLog[k].accepted

\* C20 (as claimed): at no time is more than one entry order open or pending
\* on the venue.
C20_OnePosition ==
    Cardinality({ i \in 1 .. Len(venueOrders) :
                    venueOrders[i].status \in { "pending", "filled" } }) <= 1


(***************************************************************************)
(* StrategyEngine.generateSignal (src/strategyEngine.js).  The market data *)
(* is reduced to the number of candles in ohlc, the model call to the      *)
(* number of attempts that fail before one answers, and the answer to what *)
(* the regular expression and JSON.parse make of it.                       *)
(***************************************************************************)

\* Candles atr(market.ohlc, 50) reads from the end of the series.
AtrLen == 50

\* Attempts of _callWithRetry (the default of its parameter max).
MaxRetries == 4

OhlcLens == {0, AtrLen - 1, AtrLen, AtrLen + 2}

ParsedSignals ==
    [signal : {"LONG", "SHORT", "HOLD", "BUY"},
     confidence : {Undefined, NonNumeric, Num(0), Num(80)},
     stop_loss_distance_in_usd : {Undefined, Num(0), Num(-5), Num(100)},
     take_profit_distance_in_usd : {Undefined, Num(0), Num(300)}]

\* What the model answers once an attempt succeeds: text without braces,
\* braces around something that is not JSON, or a JSON object.
Texts ==
    {[kind |-> k, parsed |-> NoOrder] : k \in {"noBraces", "notJson"}}
        \cup {[kind |-> "json", parsed |-> o] : o \in ParsedSignals}

SignalInputs ==
    [ohlcLen : OhlcLens,
     fails : 0..MaxRetries,
     failKind : {"throws", "empty"},
     text : Texts]

_fail(reason) ==
    [signal |-> "HOLD", confidence |-> Num(0),
     stop_loss_distance_in_usd |-> Num(0),
     take_profit_distance_in_usd |-> Num(0), reason |-> reason]

\* atr(ohlc, len) dereferences ohlc.at(-i) for i = 1..len.
atrThrows(ohlcLen, len) == ohlcLen < len

\* _prompt(market): its only step that can throw is atr(market.ohlc, 50).
promptThrows(in) == atrThrows(in.ohlcLen, AtrLen)

\* Variant of lastAttempt that gives up one attempt early.
lastAttemptEarly(i, max) == i >= max - 1

\* if (i === max) in the catch block
lastAttempt(i, max) == i = max

\* _callWithRetry(prompt, max): attempt i fails while i <= in.fails (the
\* call throws, or its text is empty); the last failure gives {ok: false}.
\* attempts is a history field: the generateContent calls made.
RECURSIVE _callWithRetry(_, _, _)
_callWithRetry(in, i, max) ==
    IF i > in.fails
    THEN [ok |-> TRUE, text |-> in.text, attempts |-> i]
    ELSE IF lastAttempt(i, max)
         THEN [ok |-> FALSE, text |-> in.failKind, attempts |-> i]
         ELSE _callWithRetry(in, i + 1, max)

\* The try block: text.match(/\{.*\}/s)?.[0], JSON.parse, return signal.
parseSignal(text) ==
    IF text.kind = "json"
    THEN [threw |-> FALSE, value |-> text.parsed @@ [reason |-> "model"]]
    ELSE [threw |-> FALSE, value |-> _fail("Parse error")]

generateSignal(in) ==
    IF in.ohlcLen = 0
    THEN [threw |-> FALSE, value |-> _fail("No OHLC")]
    ELSE IF promptThrows(in)
    THEN [threw |-> TRUE, value |-> _fail("TypeError")]
    ELSE LET res == _callWithRetry(in, 1, MaxRetries)
         IN  IF ~res.ok
             THEN [threw |-> FALSE, value |-> _fail("API call failed")]
             ELSE parseSignal(res.text)

SignalInit ==
    /\ RiskIdle
    /\ MatchIdle
    /\ PnlIdle
    /\ EntryIdle
    /\ ExecIdle
    /\ SimIdle
    /\ LedgerIdle
    /\ MonitorIdle
    /\ LoopIdle
    /\ sgIn \in SignalInputs
    /\ sgOut = NoOrder
    /\ sgPc = "ready"

GenerateSignal ==
    /\ sgPc = "ready"
    /\ sgOut' = generateSignal(sgIn)
    /\ sgPc' = "returned"
    /\ UNCHANGED <<sgIn, riskVars, matchVars, pnlVars, entryVars, execVars,
                   simVars, ledgerVars, monitorVars, loopVars>>

SignalNext == GenerateSignal

SpecSignal == SignalInit /\ [][SignalNext]_vars

\* The Signal schema of the specification: a direction, a numeric
\* confidence, and for a directional signal two positive distances.
Positive(x) == IsNumber(x) /\ RLt(Num(0), x)

SchemaValid(o) ==
    /\ o.signal \in {"LONG", "SHORT", "HOLD"}
    /\ IsNumber(o.confidence)
    /\ o.signal # "HOLD" =>
         /\ Positive(o.stop_loss_distance_in_usd)
         /\ Positive(o.take_profit_distance_in_usd)

Unusable(in) ==
    \/ in.ohlcLen = 0
    \/ in.fails >= MaxRetries
    \/ in.text.kind # "json"
    \/ ~SchemaValid(in.text.parsed)

FailSafeHold(v) == v.signal = "HOLD" /\ v.confidence = Num(0)

\* C21: generateSignal never throws, and whenever the model output is
\* unusable (no candles, every retry failing, empty text, no parseable JSON,
\* or JSON that violates the Signal schema) it returns HOLD with confidence 0.
C21_FailSafeHold ==
    sgPc = "returned" =>
        /\ ~sgOut.threw
        /\ Unusable(sgIn) => FailSafeHold(sgOut.value)

----------------------------------------------------------------------------
(* Signal gating of the live cycle and of the simulation (SpecEntry)       *)

PassesGate(sig, threshold) ==
    /\ sig.signal # "HOLD"
    /\ IsNumber(sig.confidence)
    /\ RLe(threshold, sig.confidence)

\* C22: an entry order (live) or a simulated position exists only for a
\* signal whose direction is not HOLD and whose confidence is a number at or
\* above the threshold of that path; a HOLD, a confidence below the
\* threshold or a missing confidence never leads to an order or position.
C22_SignalGate ==
    /\ liveEntry # NoOrder => PassesGate(liveEntry.signal, MIN_CONF)
    /\ simOpenTrade # NoOrder
          => PassesGate(simOpenTrade.sig, MINIMUM_CONFIDENCE_THRESHOLD)

\* The live half of C22 alone.
C22_LiveGate ==
    liveEntry # NoOrder => PassesGate(liveEntry.signal, MIN_CONF)

----------------------------------------------------------------------------
(* The simulation run: BacktestRunner.run, _checkExit, _handleSignal and   *)
(* _printSummary (backtestRunner.js) under the configuration of            *)
(* backtest.js.  btIdx is the loop index i of run(); candles[i] of the     *)
(* code is btCandles[i + 1].                                               *)

MaxCandles == 5      \* candles in the stream, warm-up included
MaxWarmup == 3       \* largest WARMUP_PERIOD explored

INITIAL_BALANCE == Num(10000)

\* Seconds between two candles (3-minute data).
CandleSeconds == 180

Timestamp(i) == CandleSeconds * i

\* High, low and close of a candle: one that stays between the prices below,
\* one that reaches down to 49700, one that reaches up to 50350, and one
\* that does both.
CandleShapes ==
    { [high |-> Num(50100), low |-> Num(49900), close |-> Num(50000)],
      [high |-> Num(50100), low |-> Num(49700), close |-> Num(50000)],
      [high |-> Num(50350), low |-> Num(49900), close |-> Num(50000)],
      [high |-> Num(50350), low |-> Num(49700), close |-> Num(50000)] }

\* this.cfg.  DATA_WINDOW_SIZE equals WARMUP_PERIOD, as in backtest.js.
BacktestConfigs ==
    [WARMUP_PERIOD : 2..MaxWarmup,
     MAX_API_CALLS : {1, MaxApiCalls}]

\* candles[i]
CandleAt(candles, i) ==
    [high |-> candles[i + 1].high, low |-> candles[i + 1].low,
     close |-> candles[i + 1].close, timestamp |-> Timestamp(i)]

\* The last close of window = candles.slice(i - DATA_WINDOW_SIZE, i), which
\* the RiskManager takes as lastPrice.
WindowClose(candles, i) == candles[i].close

\* What `await this.strat.generateSignal(market)` can do in a run: reject, or
\* resolve to a signal (two directional ones, the fail-safe HOLD, and one
\* the RiskManager rejects for its zero stop distance).
SimSignal(dir, conf, sl, tp) ==
    [signal |-> dir, confidence |-> conf,
     stop_loss_distance_in_usd |-> sl, take_profit_distance_in_usd |-> tp]

SimOutcomes ==
    { [throws |-> TRUE,  sig |-> SimSignal("HOLD", Num(0), Num(0), Num(0))],
      [throws |-> FALSE, sig |-> SimSignal("HOLD", Num(0), Num(0), Num(0))],
      [throws |-> FALSE, sig |-> SimSignal("LONG", Num(80), Num(200), Num(300))],
      [throws |-> FALSE, sig |-> SimSignal("SHORT", Num(80), Num(200), Num(300))],
      [throws |-> FALSE, sig |-> SimSignal("LONG", Num(80), Num(0), Num(300))] }

\* _checkExit: the exit price it settles on (Undefined stands for null).
checkExit(t, candle) ==
    LET afterStop ==
            IF t.signal = "LONG"
            THEN IF RLe(candle.low, t.stopLoss) THEN t.stopLoss ELSE Undefined
            ELSE IF t.signal = "SHORT"
            THEN IF RLe(t.stopLoss, candle.high) THEN t.stopLoss ELSE Undefined
            ELSE Undefined
    IN  IF t.signal = "LONG"
        THEN IF RLe(t.takeProfit, candle.high) THEN t.takeProfit ELSE afterStop
        ELSE IF t.signal = "SHORT"
        THEN IF RLe(candle.low, t.takeProfit) THEN t.takeProfit ELSE afterStop
        ELSE afterStop

\* BacktestExecutionHandler.closeTrade: the ClosedTrade it records.  openedAt
\* and closedAt are history fields: the loop index of the entry and of the
\* exit candle; stopLoss and takeProfit are kept from the position.
BacktestCloseTrade(t, exitPrice, exitTime, openedAt, closedAt) ==
    [signal     |-> t.signal,
     size       |-> t.size,
     entryPrice |-> t.entryPrice,
     entryTime  |-> Timestamp(openedAt),
     exitPrice  |-> exitPrice,
     exitTime   |-> exitTime,
     pnl        |-> RMul(t.size,
                         IF t.signal = "LONG"
                         THEN RSub(exitPrice, t.entryPrice)
                         ELSE RSub(t.entryPrice, exitPrice)),
     stopLoss   |-> t.stopLoss,
     takeProfit |-> t.takeProfit,
     balanceAtEntry |-> t.market.balance,
     openedAt   |-> openedAt,
     closedAt   |-> closedAt]

\* Variant of BudgetExhausted that allows one call more.
BudgetExhaustedOffByOne(calls, max) == calls > max

\* apiCalls >= this.cfg.MAX_API_CALLS
BudgetExhausted(calls, max) == calls >= max

\* Variant of StopsEarly that leaves the loop on an exhausted budget whether
\* or not a trade is open.
StopsEarlyWhenExhausted(openTrade, calls, max) == BudgetExhausted(calls, max)

\* The break of run(): no trade is open and the call budget is used up.
StopsEarly(openTrade, calls, max) ==
    openTrade = NoOrder /\ BudgetExhausted(calls, max)

\* Variant of flatForEntry that samples getOpenTrade() before the exit check.
flatBeforeExit(openBefore, openAfter) == openBefore = NoOrder

\* if (!this.exec.getOpenTrade()), evaluated after _checkExit(candle) has
\* run: openBefore and openAfter are getOpenTrade() before and after it.
flatForEntry(openBefore, openAfter) == openAfter = NoOrder

SimInit ==
    /\ RiskIdle
    /\ MatchIdle
    /\ PnlIdle
    /\ ExecIdle
    /\ SignalIdle
    /\ LedgerIdle
    /\ MonitorIdle
    /\ LoopIdle
    /\ botPc = "idle"
    /\ cycles = 0
    /\ liveEntry = NoOrder
    /\ simBalance = INITIAL_BALANCE
    /\ apiCalls = 0
    /\ simOpenTrade = NoOrder
    /\ btCfg \in BacktestConfigs
    /\ \E n \in 0..MaxCandles : btCandles \in [1..n -> CandleShapes]
    /\ btIdx = 0
    /\ btPc = "start"
    /\ btTrades = <<>>
    /\ btCalls = <<>>
    /\ btOpenedAt = 0

SimFrame == UNCHANGED <<riskVars, matchVars, pnlVars, execVars, signalVars,
                        ledgerVars, monitorVars, loopVars, botPc, cycles,
                        liveEntry, btCfg, btCandles>>

\* Variant of RunStart whose loop starts one candle before WARMUP_PERIOD.
RunStartOffByOne ==
    /\ btPc = "start"
    /\ IF Len(btCandles) < btCfg.WARMUP_PERIOD
       THEN btPc' = "failed" /\ btIdx' = btIdx
       ELSE btPc' = "loop" /\ btIdx' = btCfg.WARMUP_PERIOD - 1
    /\ apiCalls' = 0
    /\ UNCHANGED <<simBalance, simOpenTrade, btTrades, btCalls, btOpenedAt>>
    /\ SimFrame

\* run() up to the loop: the warm-up check throws, or the loop starts at
\* i = WARMUP_PERIOD with apiCalls = 0.
RunStart ==
    /\ btPc = "start"
    /\ IF Len(btCandles) < btCfg.WARMUP_PERIOD
       THEN btPc' = "failed" /\ btIdx' = btIdx
       ELSE btPc' = "loop" /\ btIdx' = btCfg.WARMUP_PERIOD
    /\ apiCalls' = 0
    /\ UNCHANGED <<simBalance, simOpenTrade, btTrades, btCalls, btOpenedAt>>
    /\ SimFrame

\* The counted call of _handleSignal on a candle with no open trade: the
\* Signal Source threw out of run(), or _handleSignal left `opened`.
signalHandled(out, afterOpen, opened) ==
    /\ apiCalls' = apiCalls + 1
    /\ btCalls' = Append(btCalls,
                         [idx |-> btIdx,
                          flat |-> afterOpen = NoOrder,
                          throws |-> out.throws,
                          opened |-> ~out.throws /\ opened # NoOrder])
    /\ IF out.throws
       THEN /\ btPc' = "crashed"
            /\ simOpenTrade' = afterOpen
            /\ UNCHANGED <<btIdx, btOpenedAt>>
       ELSE /\ btPc' = "loop"
            /\ simOpenTrade' = opened
            /\ btOpenedAt' = IF opened # NoOrder THEN btIdx ELSE btOpenedAt
            /\ btIdx' = btIdx + 1

\* One iteration of the loop of run(): _checkExit when a trade is open; then,
\* when no trade is open, the break on an exhausted budget (followed at once
\* by _printSummary) or a counted call of _handleSignal, which may throw out
\* of run().
ProcessCandle ==
    /\ btPc = "loop"
    /\ btIdx < Len(btCandles)
    /\ LET candle == CandleAt(btCandles, btIdx)
           exitPrice == IF simOpenTrade # NoOrder
                        THEN checkExit(simOpenTrade, candle)
                        ELSE Undefined
           closes == simOpenTrade # NoOrder /\ ~Falsy(exitPrice)
           trade == IF closes
                    THEN BacktestCloseTrade(simOpenTrade, exitPrice,
                                            candle.timestamp, btOpenedAt, btIdx)
                    ELSE NoOrder
           afterOpen == IF closes THEN NoOrder ELSE simOpenTrade
       IN  /\ btTrades' = IF closes THEN Append(btTrades, trade) ELSE btTrades
           /\ simBalance' = IF closes THEN RAdd(simBalance, trade.pnl)
                            ELSE simBalance
           /\ IF StopsEarly(afterOpen, apiCalls, btCfg.MAX_API_CALLS)
              THEN /\ btPc' = "done"
                   /\ simOpenTrade' = afterOpen
                   /\ UNCHANGED <<btIdx, apiCalls, btCalls, btOpenedAt>>
              ELSE IF flatForEntry(simOpenTrade, afterOpen)
              THEN \E out \in SimOutcomes :
                     signalHandled(
                         out, afterOpen,
                         handleSignal(
                             [balance |-> simBalance',
                              lastPrice |-> WindowClose(btCandles, btIdx)],
                             candle.close, out.sig))
              ELSE /\ btPc' = "loop"
                   /\ simOpenTrade' = afterOpen
                   /\ btIdx' = btIdx + 1
                   /\ UNCHANGED <<apiCalls, btCalls, btOpenedAt>>
    /\ SimFrame

\* Variant of RunFinish that closes a trade still open at the last close.
RunFinishLiquidating ==
    /\ btPc = "loop"
    /\ btIdx >= Len(btCandles)
    /\ btPc' = "done"
    /\ LET last == CandleAt(btCandles, Len(btCandles) - 1)
           trade == BacktestCloseTrade(simOpenTrade, last.close,
                                       last.timestamp, btOpenedAt,
                                       Len(btCandles) - 1)
       IN  IF simOpenTrade # NoOrder /\ Len(btCandles) > 0
           THEN /\ btTrades' = Append(btTrades, trade)
                /\ simBalance' = RAdd(simBalance, trade.pnl)
                /\ simOpenTrade' = NoOrder
           ELSE UNCHANGED <<btTrades, simBalance, simOpenTrade>>
    /\ UNCHANGED <<btIdx, apiCalls, btCalls, btOpenedAt>>
    /\ SimFrame

\* The loop of run() ends with the last candle and _printSummary writes the
\* closed trades.
RunFinish ==
    /\ btPc = "loop"
    /\ btIdx >= Len(btCandles)
    /\ btPc' = "done"
    /\ UNCHANGED <<btIdx, apiCalls, btCalls, btOpenedAt, btTrades, simBalance,
                   simOpenTrade>>
    /\ SimFrame

SimNext == RunStart \/ ProcessCandle \/ RunFinish

SpecSim == SimInit /\ [][SimNext]_vars

----------------------------------------------------------------------------
(* Properties of the simulation run (SpecSim)                              *)

\* The candle with loop index i touches the stop-loss / the take-profit of a
\* position or closed trade t.
TouchesStop(t, i) ==
    LET candle == CandleAt(btCandles, i)
    IN  IF t.signal = "LONG" THEN RLe(candle.low, t.stopLoss)
        ELSE RLe(t.stopLoss, candle.high)

TouchesTarget(t, i) ==
    LET candle == CandleAt(btCandles, i)
    IN  IF t.signal = "LONG" THEN RLe(t.takeProfit, candle.high)
        ELSE RLe(candle.low, t.takeProfit)

ClosedTrades == { btTrades[n] : n \in 1..Len(btTrades) }

\* C23: a trade closed on a candle that touches both its stop-loss and its
\* take-profit is closed at the stop-loss price.
C23_StopWinsTie ==
    \A t \in ClosedTrades :
        TouchesStop(t, t.closedAt) /\ TouchesTarget(t, t.closedAt)
            => t.exitPrice = t.stopLoss

\* Between the entry candle i and candle k (both excluded) no candle touches
\* the stop-loss or the take-profit of t.
Untouched(t, i, k) ==
    \A j \in (i + 1)..(k - 1) : ~TouchesStop(t, j) /\ ~TouchesTarget(t, j)

\* k is the first candle after the entry candle i that touches the stop-loss
\* of t, the take-profit not having been touched before it.
FirstStopTouch(t, i, k) ==
    /\ k > i
    /\ k < Len(btCandles)
    /\ TouchesStop(t, k)
    /\ Untouched(t, i, k)

\* C24: a position opened at candle i whose stop-loss is first touched at
\* candle k > i is closed when candle k is processed, at the stop-loss price
\* and with the timestamp of candle k; it is not closed before k and not
\* still open once k has been processed.
C24_ClosedAtFirstStopTouch ==
    /\ \A t \in ClosedTrades : \A k \in 0..MaxCandles :
           FirstStopTouch(t, t.openedAt, k)
               => /\ t.closedAt = k
                  /\ t.exitPrice = t.stopLoss
                  /\ t.exitTime = Timestamp(k)
    /\ simOpenTrade # NoOrder
           => \A k \in 0..(btIdx - 1) :
                  ~FirstStopTouch(simOpenTrade, btOpenedAt, k)

\* The timing half of C24 alone: closed at candle k, whatever the price.
C24_TimingOnly ==
    /\ \A t \in ClosedTrades : \A k \in 0..MaxCandles :
           FirstStopTouch(t, t.openedAt, k)
               => t.closedAt = k /\ t.exitTime = Timestamp(k)
    /\ simOpenTrade # NoOrder
           => \A k \in 0..(btIdx - 1) :
                  ~FirstStopTouch(simOpenTrade, btOpenedAt, k)

Calls == { btCalls[n] : n \in 1..Len(btCalls) }

\* C25: no Signal Source call and no entry or exit happens on a candle with
\* index below WARMUP_PERIOD; once the run is past its first candle the first
\* call was made on the candle with index WARMUP_PERIOD; and a run with fewer
\* candles than WARMUP_PERIOD fails without any call, position or trade.
C25_WarmUp ==
    /\ \A c \in Calls : c.idx >= btCfg.WARMUP_PERIOD
    /\ \A t \in ClosedTrades : /\ t.openedAt >= btCfg.WARMUP_PERIOD
                               /\ t.closedAt >= btCfg.WARMUP_PERIOD
    /\ simOpenTrade # NoOrder => btOpenedAt >= btCfg.WARMUP_PERIOD
    /\ btPc \in {"done", "crashed"} /\ Len(btCandles) > btCfg.WARMUP_PERIOD
           => btCalls # <<>> /\ btCalls[1].idx = btCfg.WARMUP_PERIOD
    /\ Len(btCandles) < btCfg.WARMUP_PERIOD
           => /\ btPc \in {"start", "failed"}
              /\ btCalls = <<>>
              /\ btTrades = <<>>
              /\ simOpenTrade = NoOrder

\* A run finished with a call on its first candle after the warm-up and a
\* trade opened and closed after it.
C25_Witness ==
    /\ btPc = "done"
    /\ btCalls # <<>>
    /\ btTrades # <<>>
    /\ btCfg.WARMUP_PERIOD = MaxWarmup

\* A run with too few candles has failed.
C25_WitnessFailed == btPc = "failed"

\* C26: the calls of one run never exceed MAX_API_CALLS, every call of
\* generateSignal is counted whatever its outcome, and each call was made
\* with no trade open.
C26_CallBudget ==
    /\ apiCalls <= btCfg.MAX_API_CALLS
    /\ Len(btCalls) = apiCalls
    /\ \A c \in Calls : c.flat

\* A finished run that used up a budget of more than one call.
C26_Witness ==
    /\ btPc = "done"
    /\ btCfg.MAX_API_CALLS > 1
    /\ apiCalls = btCfg.MAX_API_CALLS

\* Every position, open or closed, was opened by one of the counted calls,
\* is tracked on every later candle, and is closed only by a touch.
EntriesWithinBudget ==
    /\ simOpenTrade # NoOrder => \E c \in Calls : c.idx = btOpenedAt
    /\ \A t \in ClosedTrades : \E c \in Calls : c.idx = t.openedAt
    /\ Len(btCalls) <= btCfg.MAX_API_CALLS

ExitTracking ==
    /\ simOpenTrade # NoOrder => Untouched(simOpenTrade, btOpenedAt, btIdx)
    /\ \A t \in ClosedTrades :
           /\ t.closedAt > t.openedAt
           /\ TouchesStop(t, t.closedAt) \/ TouchesTarget(t, t.closedAt)
           /\ Untouched(t, t.openedAt, t.closedAt)

\* C27 as stated: the budget stops entries, exits are still tracked, and the
\* run ends only when the candle stream is exhausted.
C27_ProcessedToEnd ==
    /\ EntriesWithinBudget
    /\ ExitTracking
    /\ btPc = "done" => btIdx >= Len(btCandles)

\* C27, amended: the budget stops entries, exits are still tracked, and the
\* run ends when the candle stream is exhausted or, before that, on the
\* first candle that finds no trade open and the budget used up; it never
\* ends early while a trade is open.
C27_ExitsTrackedUntilFlat ==
    /\ EntriesWithinBudget
    /\ ExitTracking
    /\ btPc = "done"
           => \/ btIdx >= Len(btCandles)
              \/ /\ simOpenTrade = NoOrder
                 /\ BudgetExhausted(apiCalls, btCfg.MAX_API_CALLS)

\* A run that ended before the last candle, right after a trade opened by
\* the last budgeted call was closed by a touch some candles later.
C27_Witness ==
    /\ btPc = "done"
    /\ btIdx < Len(btCandles)
    /\ \E t \in ClosedTrades : /\ t.closedAt = btIdx
                               /\ t.closedAt > t.openedAt + 1
                               /\ btCalls[Len(btCalls)].idx = t.openedAt

\* C28: an error thrown while a candle is processed does not end the run;
\* run() never rejects once the loop has started.
C28_StepErrorsCaught == btPc # "crashed"

\* C29: a trade is closed only on a candle that touches its stop-loss or
\* take-profit, at that price; a run that ends with a trade open leaves it
\* open, records no ClosedTrade for it and leaves the balance as it was when
\* the trade was opened.
C29_NoForcedLiquidation ==
    /\ \A t \in ClosedTrades :
           \/ t.exitPrice = t.stopLoss /\ TouchesStop(t, t.closedAt)
           \/ t.exitPrice = t.takeProfit /\ TouchesTarget(t, t.closedAt)
    /\ btPc = "done" /\ simOpenTrade # NoOrder
           => /\ simBalance = simOpenTrade.market.balance
              /\ \A t \in ClosedTrades : t.openedAt # btOpenedAt
    /\ btPc = "done" /\ btOpenedAt > 0
           => \/ simOpenTrade # NoOrder
              \/ \E t \in ClosedTrades : t.openedAt = btOpenedAt

\* The stream ran out with a trade open that had been tracked over at least
\* one candle, after an earlier trade was closed.
C29_Witness ==
    /\ btPc = "done"
    /\ btIdx >= Len(btCandles)
    /\ simOpenTrade # NoOrder
    /\ btOpenedAt < Len(btCandles) - 1
    /\ btTrades # <<>>

----------------------------------------------------------------------------
(* The trade ledger of the live bot: saveTradesToFile (bot.js), called     *)
(* from the finally block of cycle() and from the SIGINT handler.  The     *)
(* last price is the entry price of every record, so the PnL completion    *)
(* block changes none; a call of saveTradesToFile advances                 *)
(* at its two awaits, and the file operation behind each await takes       *)
(* effect at some moment before the call resumes.  fs.writeFile is not     *)
(* atomic: it truncates the file when it opens it and writes the text      *)
(* later, so a read in between finds no text and two overlapping writes    *)
(* can leave the shorter text followed by the tail of the longer one.      *)

MaxTrades == 2       \* trade records pushed to allTrades in one run

Callers == {"cycle", "sigint"}

\* trades.json, missing or of zero bytes.
NoFile == [text |-> "empty", trades |-> <<>>, bytes |-> 0]

\* trades.json holding JSON.stringify(trades, null, 2), a text of `bytes`
\* bytes.
JsonFile(trades, bytes) == [text |-> "json", trades |-> trades, bytes |-> bytes]

\* existingTrades after lines 37-44: the parsed array, or [] when readFile
\* or JSON.parse throws (no file, no text, garbled text).
readTrades(file) == file.trades

\* The file after fs.writeFile wrote `text` from offset 0 into what is there:
\* the text, or the text followed by the tail of a longer one.
Overwrite(file, text) ==
    IF text.bytes >= file.bytes THEN text
    ELSE [text |-> "garbled", trades |-> <<>>, bytes |-> file.bytes]

\* tradeRecord of cycle(); id stands for its date field.
tradeRecord(id, sig, params, lastPrice) ==
    [id         |-> id,
     size       |-> params.size,
     side       |-> sig.signal,
     price      |-> lastPrice,
     stopLoss   |-> params.stopLoss,
     takeProfit |-> params.takeProfit,
     pnl        |-> Undefined]

\* The number of decimal digits of the natural number n.
RECURSIVE Digits(_)
Digits(n) == IF n < 10 THEN 1 ELSE 1 + Digits(n \div 10)

\* The number of digits after the point of r/d (r < d), a decimal fraction.
RECURSIVE FractionDigits(_, _)
FractionDigits(r, d) ==
    IF r = 0 THEN 0 ELSE 1 + FractionDigits((r * 10) % d, d)

\* The length of the text JSON.stringify gives for the number x, a decimal
\* fraction of at most 15 digits: sign, integer digits, point and fraction
\* digits.
numberLength(x) ==
    (IF x[1] < 0 THEN 1 ELSE 0)
        + Digits(Abs(x[1]) \div x[2])
        + (IF Abs(x[1]) % x[2] = 0 THEN 0
           ELSE 1 + FractionDigits(Abs(x[1]) % x[2], x[2]))

\* The length of the text of one record in JSON.stringify(trades, null, 2):
\* the lines `  {` and `  }`, and between them one line per field, indented
\* by four blanks and joined by `,` and a line feed.  date is an ISO string
\* of 24 characters; a pnl of undefined is left out.
recordLength(t) ==
    4 + 38
      + 2 + 12 + numberLength(t.size)
      + 2 + 14 + Len(t.side)
      + 2 + 13 + numberLength(t.price)
      + 2 + 16 + numberLength(t.stopLoss)
      + 2 + 18 + numberLength(t.takeProfit)
      + (IF t.pnl = Undefined THEN 0 ELSE 2 + 11 + numberLength(t.pnl))
      + 4

\* The length of the records of JSON.stringify(trades, null, 2), each but
\* the last followed by `,` and a line feed.
RECURSIVE recordsLength(_)
recordsLength(trades) ==
    IF Len(trades) = 1 THEN recordLength(trades[1])
    ELSE recordLength(Head(trades)) + 2 + recordsLength(Tail(trades))

\* The length of JSON.stringify(trades, null, 2): `[]`, or the records
\* between the lines `[` and `]`.
stringifyLength(trades) ==
    IF trades = <<>> THEN 2 ELSE 2 + recordsLength(trades) + 2

\* JSON.stringify(combinedTrades, null, 2) as the text of trades.json.
stringify(trades) == JsonFile(trades, stringifyLength(trades))

\* The signals behind the records of these runs: the ones of the live
\* order execution that place an order.
LedgerSignals == { sig \in ExecSignals : sig.signal # "HOLD" }

\* The record cycle() pushes for signal sig after a placed order.
placedRecord(id, sig) ==
    tradeRecord(id, sig,
                calculateTradeParameters(RiskManager(LiveRiskConfig),
                                         ExecMarket, sig),
                ExecMarket.lastPrice)

\* Contents of trades.json when the bot starts: no file, or one record
\* (number 0) of an earlier run.
InitialFiles ==
    { NoFile } \cup { stringify(<<placedRecord(0, sig)>>) : sig \in LedgerSignals }

SaveCall(pc, existing, combined) ==
    [pc |-> pc, existing |-> existing, combined |-> combined]

NotSaving == SaveCall("idle", <<>>, <<>>)

Exited == ldCallers["sigint"].pc = "exited"

LedgerInit ==
    /\ RiskIdle
    /\ MatchIdle
    /\ PnlIdle
    /\ EntryIdle
    /\ ExecIdle
    /\ SignalIdle
    /\ SimIdle
    /\ MonitorIdle
    /\ LoopIdle
    /\ ldFile \in InitialFiles
    /\ ldMem = <<>>
    /\ ldCallers = [c \in Callers |-> NotSaving]
    /\ ldAll = { ldFile.trades[n].id : n \in 1..Len(ldFile.trades) }

LedgerFrame == UNCHANGED <<riskVars, matchVars, pnlVars, entryVars, execVars,
                           signalVars, simVars, monitorVars, loopVars>>

\* cycle() resumes after placeOrder resolved (lines 271-303):
\* allTrades.push(tradeRecord), then with no await in between the finally
\* block, which calls saveTradesToFile; the call runs up to
\* `await fs.readFile(...)`.
RecordTrade ==
    /\ ~Exited
    /\ ldCallers["cycle"].pc = "idle"
    /\ Cardinality(ldAll \ {0}) < MaxTrades
    /\ \E sig \in LedgerSignals :
         ldMem' = Append(ldMem,
                         placedRecord(Cardinality(ldAll \ {0}) + 1, sig))
    /\ ldAll' = ldAll \cup { Cardinality(ldAll \ {0}) + 1 }
    /\ ldCallers' = [ldCallers EXCEPT
                       !["cycle"] = SaveCall("reading", <<>>, <<>>)]
    /\ UNCHANGED ldFile
    /\ LedgerFrame

\* if (allTrades.length > 0) saveTradesToFile(), in the SIGINT handler or
\* in the finally block of a cycle that pushed no record (allTrades holds
\* what an earlier write failed to save): the call runs up to
\* `await fs.readFile(...)`.
SaveStart(c) ==
    /\ ~Exited
    /\ ldCallers[c].pc = "idle"
    /\ Len(ldMem) > 0
    /\ ldCallers' = [ldCallers EXCEPT ![c] = SaveCall("reading", <<>>, <<>>)]
    /\ UNCHANGED <<ldFile, ldMem, ldAll>>
    /\ LedgerFrame

\* The SIGINT handler with nothing to save: process.exit(0).
ExitNow ==
    /\ ~Exited
    /\ ldCallers["sigint"].pc = "idle"
    /\ Len(ldMem) = 0
    /\ ldCallers' = [ldCallers EXCEPT !["sigint"] = SaveCall("exited", <<>>, <<>>)]
    /\ UNCHANGED <<ldFile, ldMem, ldAll>>
    /\ LedgerFrame

\* fs.readFile reads the file as it is at this moment; a missing, empty or
\* unparsable file leaves existingTrades at [].
SaveReadFile(c) ==
    /\ ~Exited
    /\ ldCallers[c].pc = "reading"
    /\ ldCallers' = [ldCallers EXCEPT
                       ![c] = SaveCall("read", readTrades(ldFile), <<>>)]
    /\ UNCHANGED <<ldFile, ldMem, ldAll>>
    /\ LedgerFrame

\* The call resumes after the read: combinedTrades = [...existingTrades,
\* ...allTrades], and runs up to `await fs.writeFile(...)`.
SaveCombine(c) ==
    /\ ~Exited
    /\ ldCallers[c].pc = "read"
    /\ ldCallers' = [ldCallers EXCEPT
                       ![c] = SaveCall("writing", ldCallers[c].existing,
                                       ldCallers[c].existing \o ldMem)]
    /\ UNCHANGED <<ldFile, ldMem, ldAll>>
    /\ LedgerFrame

\* fs.writeFile opens the file, which truncates it, or fails to open it.
SaveOpenFile(c) ==
    /\ ~Exited
    /\ ldCallers[c].pc = "writing"
    /\ \E ok \in BOOLEAN :
         /\ ldFile' = IF ok THEN NoFile ELSE ldFile
         /\ ldCallers' = [ldCallers EXCEPT
                            ![c].pc = IF ok THEN "opened" ELSE "writeFailed"]
    /\ UNCHANGED <<ldMem, ldAll>>
    /\ LedgerFrame

\* fs.writeFile writes the text of combinedTrades from the start of the
\* file.
SaveWriteFile(c) ==
    /\ ~Exited
    /\ ldCallers[c].pc = "opened"
    /\ ldFile' = Overwrite(ldFile, stringify(ldCallers[c].combined))
    /\ ldCallers' = [ldCallers EXCEPT ![c].pc = "written"]
    /\ UNCHANGED <<ldMem, ldAll>>
    /\ LedgerFrame

\* The call resumes after the write: allTrades.length = 0, or the catch
\* block after a failed write; then the cycle ends, or the SIGINT handler
\* calls process.exit(0).
SaveClear(c) ==
    /\ ~Exited
    /\ ldCallers[c].pc \in {"written", "writeFailed"}
    /\ ldMem' = IF ldCallers[c].pc = "written" THEN <<>> ELSE ldMem
    /\ ldCallers' = [ldCallers EXCEPT
                       ![c] = IF c = "sigint"
                              THEN SaveCall("exited", <<>>, <<>>)
                              ELSE NotSaving]
    /\ UNCHANGED <<ldFile, ldAll>>
    /\ LedgerFrame

LedgerNext ==
    \/ RecordTrade
    \/ ExitNow
    \/ \E c \in Callers : SaveStart(c)
    \/ \E c \in Callers : SaveReadFile(c)
    \/ \E c \in Callers : SaveCombine(c)
    \/ \E c \in Callers : SaveOpenFile(c)
    \/ \E c \in Callers : SaveWriteFile(c)
    \/ \E c \in Callers : SaveClear(c)

SpecLedger == LedgerInit /\ [][LedgerNext]_vars

----------------------------------------------------------------------------
(* Properties of the trade ledger (SpecLedger)                             *)

\* How often record id occurs in the sequence q.
Occurrences(q, id) == Cardinality({ n \in 1..Len(q) : q[n].id = id })

\* No saveTradesToFile call is in progress.
Quiescent == \A c \in Callers : ldCallers[c].pc \in {"idle", "exited"}

\* C30: whatever the interleaving of the two callers of saveTradesToFile, no
\* record is ever in trades.json twice, and once no call is in progress
\* every record is in the file exactly once or, after a failed write, still
\* waiting in allTrades.
C30_ExactlyOnce ==
    /\ \A id \in ldAll : Occurrences(ldFile.trades, id) <= 1
    /\ Quiescent
         => \A id \in ldAll :
                Occurrences(ldFile.trades, id) + Occurrences(ldMem, id) = 1

\* The two halves of C30 separately.
C30_NeverDuplicated == \A id \in ldAll : Occurrences(ldFile.trades, id) <= 1

C30_NeverLost ==
    Quiescent => \A id \in ldAll :
                     Occurrences(ldFile.trades, id) + Occurrences(ldMem, id) >= 1

\* With the cycle as the only caller (no SIGINT during a save) the ledger
\* is written exactly once per record.
C30_SingleCaller ==
    ldCallers["sigint"].pc = "idle" => C30_ExactlyOnce

----------------------------------------------------------------------------
(* Price basis of a simulated position (SpecEntry)                         *)

\* C31: for every simulated position the price the RiskManager worked from
\* is the position's entry price, so the stop-loss lies on the loss side and
\* the take-profit on the gain side of the entry price.
C31_StopsAroundEntry ==
    simOpenTrade # NoOrder
        => /\ simOpenTrade.market.lastPrice = simOpenTrade.entryPrice
           /\ IF simOpenTrade.signal = "LONG"
              THEN /\ RLt(simOpenTrade.stopLoss, simOpenTrade.entryPrice)
                   /\ RLt(simOpenTrade.entryPrice, simOpenTrade.takeProfit)
              ELSE /\ RLt(simOpenTrade.entryPrice, simOpenTrade.stopLoss)
                   /\ RLt(simOpenTrade.takeProfit, simOpenTrade.entryPrice)

\* The same relative to the price the RiskManager did work from: the last
\* close of the window.
C31_StopsAroundWindowClose ==
    simOpenTrade # NoOrder /\ simOpenTrade.signal \in {"LONG", "SHORT"}
        => IF simOpenTrade.signal = "LONG"
           THEN /\ RLt(simOpenTrade.stopLoss, simOpenTrade.market.lastPrice)
                /\ RLt(simOpenTrade.market.lastPrice, simOpenTrade.takeProfit)
           ELSE /\ RLt(simOpenTrade.market.lastPrice, simOpenTrade.stopLoss)
                /\ RLt(simOpenTrade.takeProfit, simOpenTrade.market.lastPrice)

----------------------------------------------------------------------------
(* Properties of the queue of realizedPnlStatsFromFills (SpecPnl)          *)

\* The next fill of the for loop is on the side of the queue head.
SameSideFillNext ==
    /\ pnlPc = "loop"
    /\ pnlIdx <= Len(pnlFills)
    /\ pnlQueue # <<>>
    /\ pnlFills[pnlIdx].size > 0
    /\ pnlFills[pnlIdx].side = pnlQueue[1].side

\* C32: processing a fill on the side of the queue head changes neither
\* totalCloses nor realisedPnL, leaves every queued lot as it was, and
\* appends one lot with the fill's side, full size and price.
C32_SameSideExtends ==
    SameSideFillNext
        => LET f == pnlFills[pnlIdx]
               r == PnlBody(pnlQueue, pnlStats, f)
           IN  /\ r.stats = pnlStats
               /\ r.queue = Append(pnlQueue, [side |-> f.side,
                                              size |-> f.size,
                                              price |-> f.price])

\* The statistics half of C32 alone.
C32_SameSideClosesNothing ==
    SameSideFillNext
        => PnlBody(pnlQueue, pnlStats, pnlFills[pnlIdx]).stats = pnlStats

----------------------------------------------------------------------------
(* Inventory of the two queue matchers (SpecMatch, SpecPnl)                *)

\* Net signed quantity (buys minus sells) of the first n fills.
RECURSIVE NetQuantity(_, _)
NetQuantity(fills, n) ==
    IF n = 0 THEN 0
    ELSE NetQuantity(fills, n - 1)
         + (IF fills[n].side = "buy" THEN fills[n].size ELSE -fills[n].size)

RECURSIVE TotalSize(_)
TotalSize(q) == IF q = <<>> THEN 0 ELSE Head(q).size + TotalSize(Tail(q))

OneSided(q) == \A i, j \in 1..Len(q) : q[i].side = q[j].side

\* The inventory invariant for the queue of buildLast10ClosedFromRawFills
\* after the first fmIdx - 1 fills.
InventoryOfMatcher ==
    fmPc = "loop"
        => /\ OneSided(queue)
           /\ \A i \in 1..Len(queue) :
                  /\ queue[i].size >= 0
                  /\ queue[i].size <= fmFills[queue[i].openedAt].size
           /\ TotalSize(queue) = Abs(NetQuantity(fmFills, fmIdx - 1))

\* C33: after any prefix of the fills the queue of realizedPnlStatsFromFills
\* holds lots of one side only, each with a size >= 0 and no larger than the
\* fill that queued it, and their total size is the absolute net signed
\* quantity of the fills processed so far.
C33_Inventory ==
    pnlPc = "loop"
        => /\ OneSided(pnlQueue)
           /\ \A i \in 1..Len(pnlQueue) :
                  /\ pnlQueue[i].size >= 0
                  /\ \E n \in 1..(pnlIdx - 1) :
                         /\ pnlFills[n].price = pnlQueue[i].price
                         /\ pnlQueue[i].size <= pnlFills[n].size
           /\ TotalSize(pnlQueue) = Abs(NetQuantity(pnlFills, pnlIdx - 1))

----------------------------------------------------------------------------
(* ExecutionHandler.monitorOrderFill with its clock                        *)
(* (src/executionHandler.js lines 89-119).  Time is Date.now() - startTime *)
(* in milliseconds; a poll takes some time to return or throw, and a timer *)
(* fires no earlier than its delay.                                        *)

TIMEOUT_MS == 60000

POLL_INTERVAL_MS == 5000

\* Time one `await this.api.getRecentOrders(...)` takes to return or throw.
PollLatencies == { 0, 1000, TIMEOUT_MS }

\* What one poll yields: the call throws, the response has no orders, the
\* order is listed but not filled, or it is listed as filled.
MonitorReports == { "throws", "noOrders", "unfilled", "filled" }

\* How late after POLL_INTERVAL_MS the timer's callback runs.
TimerLateness == { 0, 1 }

\* Variant of BudgetLeft that still polls when the budget is just used up.
BudgetLeftInclusive(elapsed) == elapsed <= TIMEOUT_MS

\* while (Date.now() - startTime < TIMEOUT_MS)
BudgetLeft(elapsed) == elapsed < TIMEOUT_MS

MonitorInit ==
    /\ RiskIdle
    /\ MatchIdle
    /\ PnlIdle
    /\ EntryIdle
    /\ ExecIdle
    /\ SignalIdle
    /\ SimIdle
    /\ LedgerIdle
    /\ LoopIdle
    /\ MonitorIdle

MonitorFrame == UNCHANGED <<riskVars, matchVars, pnlVars, entryVars, execVars,
                            signalVars, simVars, ledgerVars, loopVars>>

\* const startTime = Date.now();
monitorOrderFillStart ==
    /\ moPc = "idle"
    /\ moPc' = "check"
    /\ moElapsed' = 0
    /\ UNCHANGED <<moPolls, moThrew, moFilledAt, moResult>>
    /\ MonitorFrame

\* The while condition; when it fails the method logs and returns null.
monitorOrderFillWhile ==
    /\ moPc = "check"
    /\ IF BudgetLeft(moElapsed)
          THEN /\ moPc' = "poll"
               /\ moResult' = moResult
          ELSE /\ moPc' = "done"
               /\ moResult' = "null"
    /\ UNCHANGED <<moElapsed, moPolls, moThrew, moFilledAt>>
    /\ MonitorFrame

\* The try block: one getRecentOrders call, which returns or throws; a
\* filled order is returned at once, anything else goes on to the timer.
monitorOrderFillPoll ==
    /\ moPc = "poll"
    /\ \E latency \in PollLatencies, report \in MonitorReports :
          /\ moElapsed' = moElapsed + latency
          /\ moPolls' = moPolls + 1
          /\ moThrew' = IF report = "throws" THEN moThrew + 1 ELSE moThrew
          /\ IF report = "filled"
                THEN /\ moFilledAt' = moPolls + 1
                     /\ moResult' = "order"
                     /\ moPc' = "done"
                ELSE /\ moFilledAt' = moFilledAt
                     /\ moResult' = moResult
                     /\ moPc' = "sleep"
    /\ MonitorFrame

\* await new Promise(resolve => setTimeout(resolve, POLL_INTERVAL_MS));
monitorOrderFillSleep ==
    /\ moPc = "sleep"
    /\ \E late \in TimerLateness :
          moElapsed' = moElapsed + POLL_INTERVAL_MS + late
    /\ moPc' = "check"
    /\ UNCHANGED <<moPolls, moThrew, moFilledAt, moResult>>
    /\ MonitorFrame

MonitorNext ==
    \/ monitorOrderFillStart
    \/ monitorOrderFillWhile
    \/ monitorOrderFillPoll
    \/ monitorOrderFillSleep

\* Every poll returns or throws and every timer fires: a step that is
\* possible is eventually taken.
SpecMonitor == MonitorInit /\ [][MonitorNext]_vars /\ WF_vars(MonitorNext)

\* 60 s of budget at 5 s spacing.
PollBudget == TIMEOUT_MS \div POLL_INTERVAL_MS

MonitorOutcome ==
    /\ moPolls <= PollBudget
    /\ moPc # "done" => moResult = "pending" /\ moFilledAt = 0
    /\ moPc = "done" =>
          \/ moResult = "order" /\ moFilledAt = moPolls
          \/ /\ moResult = "null"
             /\ moFilledAt = 0
             /\ moElapsed >= TIMEOUT_MS
    /\ moThrew <= moPolls

\* C34: monitorOrderFill terminates whenever each poll returns or throws.
\* It returns the order at the first poll that reports it filled, making no
\* poll after that one; otherwise it returns null once 60 s have elapsed,
\* after at most 12 polls; a poll that throws counts as "not yet filled"
\* and polling goes on within the same budget.
C34_MonitorTerminates == []MonitorOutcome /\ <>(moPc = "done")

\* A call that timed out after the full 12 polls, some of which threw.
C34_Witness ==
    /\ moPc = "done"
    /\ moResult = "null"
    /\ moPolls = PollBudget
    /\ moThrew > 0

----------------------------------------------------------------------------
(* Direction of the live entry order                                       *)

\* C35: the live path submits an entry order only for a signal whose
\* direction is exactly LONG (a buy entry) or exactly SHORT (a sell entry);
\* any other direction that reaches the cycle results in no order.
C35_DirectionSafety ==
    (liveEntry # NoOrder /\ cycles > 0)
        => \/ liveEntry.signal.signal = "LONG" /\ liveEntry.side = "buy"
           \/ liveEntry.signal.signal = "SHORT" /\ liveEntry.side = "sell"

\* The part that holds: a buy entry is sent for LONG and for nothing else,
\* and HOLD never leads to an order.
C35_BuyOnlyForLong ==
    (liveEntry # NoOrder /\ cycles > 0)
        => /\ liveEntry.signal.signal # "HOLD"
           /\ liveEntry.side = "buy" <=> liveEntry.signal.signal = "LONG"

----------------------------------------------------------------------------
(* StrategyEngine._callWithRetry                                           *)

\* generateSignal got as far as calling _callWithRetry.
ModelCalled == sgPc = "returned" /\ sgIn.ohlcLen >= AtrLen

\* C36: _callWithRetry calls the model at most max times; it returns
\* {ok: true, text} at the first attempt that yields non-empty text and makes
\* no attempt after it; it returns {ok: false} exactly when all max attempts
\* threw or gave empty text; it never throws.
C36_CallWithRetry ==
    ModelCalled =>
        /\ ~sgOut.threw
        /\ (sgOut.value.reason = "API call failed") <=> (sgIn.fails >= MaxRetries)
        /\ \A max \in 1..MaxRetries :
              LET res == _callWithRetry(sgIn, 1, max)
              IN  /\ res.attempts <= max
                  /\ res.ok <=> sgIn.fails < max
                  /\ res.ok => /\ res.attempts = sgIn.fails + 1
                               /\ res.text = sgIn.text
                  /\ ~res.ok => res.attempts = max

\* Three failed attempts, then an answer at the fourth and last one.
C36_Witness ==
    /\ ModelCalled
    /\ sgIn.fails = MaxRetries - 1
    /\ sgIn.text.kind = "json"
    /\ sgOut.value.reason = "model"

----------------------------------------------------------------------------
(* Per-candle ordering of the simulation                                   *)

\* The exit check comes first: on the candle that closes a trade the entry
\* decision is taken as well, so the Signal Source is called on that candle
\* unless the run stops there on a used-up budget.
ExitBeforeEntry ==
    \A t \in ClosedTrades :
        \/ \E c \in Calls : c.idx = t.closedAt
        \/ /\ btPc = "done"
           /\ btIdx = t.closedAt
           /\ BudgetExhausted(apiCalls, btCfg.MAX_API_CALLS)

\* No call is made on a candle on which a position is open after the check.
CalledOnlyWhenFlat ==
    /\ \A c \in Calls : c.flat
    /\ \A c \in Calls, t \in ClosedTrades :
           ~(t.openedAt < c.idx /\ c.idx < t.closedAt)
    /\ simOpenTrade # NoOrder => \A c \in Calls : c.idx <= btOpenedAt

\* A position opened at candle i is tested against candle i + 1 first: it
\* is never closed on candle i, and when it is closed no candle from i + 1
\* on had touched its levels before.
FirstTestedOnNextCandle ==
    /\ \A t \in ClosedTrades : /\ t.closedAt >= t.openedAt + 1
                               /\ Untouched(t, t.openedAt, t.closedAt)
    /\ simOpenTrade # NoOrder => /\ btIdx >= btOpenedAt + 1
                                 /\ Untouched(simOpenTrade, btOpenedAt, btIdx)

\* Every position ever opened is closed or is the one open now, and the
\* holding periods follow one another.
AtMostOneOpen ==
    /\ Cardinality({ n \in 1..Len(btCalls) : btCalls[n].opened })
           = Len(btTrades) + (IF simOpenTrade # NoOrder THEN 1 ELSE 0)
    /\ \A m, n \in 1..Len(btTrades) :
           m < n => btTrades[m].closedAt <= btTrades[n].openedAt
    /\ simOpenTrade # NoOrder
           => \A t \in ClosedTrades : t.closedAt <= btOpenedAt

\* C37: on each candle the exit check of an open position runs before the
\* entry decision; the Signal Source is consulted only if no position is open
\* after that check; a position opened at candle i is first exit-tested
\* against candle i + 1; at most one simulated position is open at any time.
C37_CandleOrdering ==
    /\ ExitBeforeEntry
    /\ CalledOnlyWhenFlat
    /\ FirstTestedOnNextCandle
    /\ AtMostOneOpen

\* A trade closed on the candle right after its entry candle, and a new
\* position opened on that same closing candle.
C37_Witness ==
    /\ simOpenTrade # NoOrder
    /\ \E t \in ClosedTrades : /\ t.closedAt = t.openedAt + 1
                               /\ btOpenedAt = t.closedAt

----------------------------------------------------------------------------
(* The live loop of src/bot.js: loop(), cycle() with its PnL completion    *)
(* block and its finally block, saveTradesToFile and the SIGINT handler.   *)

MaxLoopCycles == 2

\* market.ohlc.at(-1).close of the cycles.
LoopPrices == { Num(50000), Num(50300) }

\* The signals that pass the gate of cycle().
LoopSignals ==
    [signal : { "LONG", "SHORT" },
     confidence : { Num(80) },
     stop_loss_distance_in_usd : { Num(200) },
     take_profit_distance_in_usd : { Num(300) }]

LoopBalance == Num(10000)

\* The outcomes in which the cycle returns before it has a last price.
BeforePnlBlock == { "noKeys", "fetchFailed", "invalidData" }

\* The price has crossed the stop-loss or the take-profit of the trade.
crossed(trade, lastPrice) ==
    \/ /\ trade.side = "LONG"
       /\ RLe(lastPrice, trade.stopLoss) \/ RLe(trade.takeProfit, lastPrice)
    \/ /\ trade.side = "SHORT"
       /\ RLe(trade.stopLoss, lastPrice) \/ RLe(lastPrice, trade.takeProfit)

\* finalPrice of the PnL completion block; JsNull when nothing was crossed.
finalPrice(trade, lastPrice) ==
    IF ~crossed(trade, lastPrice) THEN JsNull
    ELSE IF trade.side = "LONG"
         THEN IF RLe(lastPrice, trade.stopLoss) THEN trade.stopLoss
              ELSE trade.takeProfit
         ELSE IF RLe(trade.stopLoss, lastPrice) THEN trade.stopLoss
              ELSE trade.takeProfit

\* (a - b) * size on the doubles d, written on the exact product
pnlDouble(d, exact) == DValueAt(DMul(DSub(d.a, d.b), d.size), exact, d.exact)

\* The pnl for the exact product: integers multiply exactly
pnlWritten(a, b, size, exact) ==
    IF a[2] = 1 /\ b[2] = 1 /\ size[2] = 1 THEN exact
    ELSE pnlDouble(DoublesOf([a |-> a, b |-> b, size |-> size,
                              exact |-> exact]),
                   exact)

\* (a - b) * size, as the doubles give it
pnlOf(a, b, size) == pnlWritten(a, b, size, RMul(RSub(a, b), size))

\* The loop body of the PnL completion block for one trade of allTrades.
completePnl(trade, lastPrice) ==
    LET final == finalPrice(trade, lastPrice)
    IN  IF trade.pnl = Undefined /\ final # JsNull
        THEN [trade EXCEPT !.pnl =
                 pnlOf(IF trade.side = "LONG" THEN final ELSE trade.price,
                       IF trade.side = "LONG" THEN trade.price ELSE final,
                       trade.size)]
        ELSE trade

\* if (allTrades.length > 0) { ... }: every record of allTrades is examined.
completeAll(mem, lastPrice) ==
    [n \in 1..Len(mem) |-> completePnl(mem[n], lastPrice)]

\* The records of trades.json and allTrades together.
Recorded == { lpFile.trades[n] : n \in 1..Len(lpFile.trades) }
                \cup { lpMem[n] : n \in 1..Len(lpMem) }

NoLocals == [lastPrice |-> Undefined, signal |-> Undefined, params |-> Null]

LoopInit ==
    /\ RiskIdle
    /\ MatchIdle
    /\ PnlIdle
    /\ EntryIdle
    /\ ExecIdle
    /\ SignalIdle
    /\ SimIdle
    /\ LedgerIdle
    /\ MonitorIdle
    /\ lpPc = "boot"
    /\ lpRunning = 0
    /\ lpTimers = 0
    /\ lpCycles = 0
    /\ lpSuccessors = 0
    /\ lpMem = <<>>
    /\ lpFile = NoFile
    /\ lpSeen = {}
    /\ lpOutcome = "none"
    /\ lpLocal = NoLocals
    /\ lpSaves = [c \in Callers |-> NotSaving]

LoopFrame == UNCHANGED <<riskVars, matchVars, pnlVars, entryVars, execVars,
                         signalVars, simVars, ledgerVars, monitorVars>>

\* cycle() leaves its try block with allTrades = mem, `running` cycles not
\* yet settled: the finally block (lines 299-305) calls saveTradesToFile,
\* which runs to `await fs.readFile(...)`, or has nothing to save and the
\* promise of cycle() settles.
cycleFinally(mem, outcome, running) ==
    /\ lpMem' = mem
    /\ lpOutcome' = outcome
    /\ lpLocal' = NoLocals
    /\ IF Len(mem) > 0
       THEN /\ lpPc' = "saving"
            /\ lpRunning' = running
            /\ lpSaves' = [lpSaves EXCEPT
                              !["cycle"] = SaveCall("reading", <<>>, <<>>)]
       ELSE /\ lpPc' = "settled"
            /\ lpRunning' = running - 1
            /\ lpSaves' = lpSaves

\* cycle() from its call to `await data.fetchAllData(...)` (lines 169-188),
\* or to its finally block when the API keys are missing.
cycle ==
    /\ lpCycles' = lpCycles + 1
    /\ lpSuccessors' = 0
    /\ \E keys \in BOOLEAN :
          IF keys
          THEN /\ lpPc' = "fetch"
               /\ lpRunning' = lpRunning + 1
               /\ UNCHANGED <<lpMem, lpOutcome, lpLocal, lpSaves>>
          ELSE cycleFinally(lpMem, "noKeys", lpRunning + 1)
    /\ UNCHANGED <<lpFile, lpSeen>>

\* Variant of loop that leaves its timer armed, as setInterval would.
loopRearming ==
    /\ lpPc = "boot" \/ (lpPc = "waiting" /\ lpTimers > 0)
    /\ lpCycles < MaxLoopCycles
    /\ lpTimers' = IF lpPc = "boot" THEN 1 ELSE lpTimers
    /\ cycle
    /\ LoopFrame

\* loop(), called when the module is loaded and by each timer: it calls
\* cycle(), which runs to its first await.
loop ==
    /\ lpPc = "boot" \/ (lpPc = "waiting" /\ lpTimers > 0)
    /\ lpCycles < MaxLoopCycles
    /\ lpTimers' = IF lpPc = "boot" THEN 0 ELSE lpTimers - 1
    /\ cycle
    /\ LoopFrame

\* cycle() resumes after fetchAllData (lines 189-251): the data is missing
\* or invalid, or the PnL completion block runs and the open positions are
\* looked at: openPositions is not an array and line 241 throws into the
\* outer catch, or a position is open, or cycle() goes on to
\* `await strat.generateSignal(market)`.
cycleFetched ==
    /\ lpPc = "fetch"
    /\ \E outcome \in { "fetchFailed", "invalidData", "throws",
                         "positionOpen", "flat" },
          lastPrice \in LoopPrices :
          IF outcome \in BeforePnlBlock
          THEN /\ cycleFinally(lpMem, outcome, lpRunning)
               /\ UNCHANGED lpSeen
          ELSE /\ lpSeen' = lpSeen \cup
                              { t.id : t \in { r \in Recorded :
                                                 crossed(r, lastPrice) } }
               /\ IF outcome \in { "throws", "positionOpen" }
                  THEN cycleFinally(completeAll(lpMem, lastPrice), outcome,
                                    lpRunning)
                  ELSE /\ lpMem' = completeAll(lpMem, lastPrice)
                       /\ lpLocal' = [NoLocals EXCEPT !.lastPrice = lastPrice]
                       /\ lpPc' = "signal"
                       /\ UNCHANGED <<lpRunning, lpOutcome, lpSaves>>
    /\ UNCHANGED <<lpTimers, lpCycles, lpSuccessors, lpFile>>
    /\ LoopFrame

\* Lines 266-270: with parameters exec.placeOrder is called and awaited;
\* without them the try block ends.
paramsCalculated(outcome, sig, params) ==
    IF outcome = "order" /\ params # Null
    THEN /\ lpLocal' = [lpLocal EXCEPT !.signal = sig, !.params = params]
         /\ lpPc' = "order"
         /\ UNCHANGED <<lpRunning, lpMem, lpOutcome, lpSaves>>
    ELSE cycleFinally(lpMem,
                      IF outcome = "order" THEN "noTrade" ELSE outcome,
                      lpRunning)

\* cycle() resumes after generateSignal (lines 252-270): it threw, or the
\* signal does not pass the gate, or something else throws into the outer
\* catch, or the RiskManager returns no parameters, or exec.placeOrder is
\* called and awaited.
cycleSignalled ==
    /\ lpPc = "signal"
    /\ \E outcome \in { "signalFailed", "throws", "noTrade", "order" },
          sig \in LoopSignals :
          paramsCalculated(
              outcome, sig,
              calculateTradeParameters(RiskManager(LiveRiskConfig),
                                       [balance |-> LoopBalance,
                                        lastPrice |-> lpLocal.lastPrice],
                                       sig))
    /\ UNCHANGED <<lpTimers, lpCycles, lpSuccessors, lpFile, lpSeen>>
    /\ LoopFrame

\* cycle() resumes after placeOrder (lines 271-289): the trade record is
\* pushed, or placeOrder threw.
cycleOrdered ==
    /\ lpPc = "order"
    /\ \E placed \in BOOLEAN :
          IF placed
          THEN cycleFinally(
                   Append(lpMem, tradeRecord(lpCycles, lpLocal.signal,
                                             lpLocal.params, lpLocal.lastPrice)),
                   "orderPlaced", lpRunning)
          ELSE cycleFinally(lpMem, "orderFailed", lpRunning)
    /\ UNCHANGED <<lpTimers, lpCycles, lpSuccessors, lpFile, lpSeen>>
    /\ LoopFrame

\* The process is running and call c of saveTradesToFile is at pc.
Saving(c, pc) == lpPc # "exited" /\ lpSaves[c].pc = pc

\* fs.readFile (line 39) reads the file as it is at this moment.
saveReadFile(c) ==
    /\ Saving(c, "reading")
    /\ lpSaves' = [lpSaves EXCEPT
                      ![c] = SaveCall("read", readTrades(lpFile), <<>>)]
    /\ UNCHANGED <<lpPc, lpRunning, lpTimers, lpCycles, lpSuccessors, lpMem,
                   lpFile, lpSeen, lpOutcome, lpLocal>>
    /\ LoopFrame

\* saveTradesToFile resumes after the read (lines 40-47): combinedTrades is
\* built from allTrades as it is now, and fs.writeFile is called.
saveCombine(c) ==
    /\ Saving(c, "read")
    /\ lpSaves' = [lpSaves EXCEPT
                      ![c] = SaveCall("writing", lpSaves[c].existing,
                                      lpSaves[c].existing \o lpMem)]
    /\ UNCHANGED <<lpPc, lpRunning, lpTimers, lpCycles, lpSuccessors, lpMem,
                   lpFile, lpSeen, lpOutcome, lpLocal>>
    /\ LoopFrame

\* fs.writeFile (line 47) opens the file, which truncates it, or fails.
saveOpenFile(c) ==
    /\ Saving(c, "writing")
    /\ \E ok \in BOOLEAN :
          /\ lpFile' = IF ok THEN NoFile ELSE lpFile
          /\ lpSaves' = [lpSaves EXCEPT
                            ![c].pc = IF ok THEN "opened" ELSE "writeFailed"]
    /\ UNCHANGED <<lpPc, lpRunning, lpTimers, lpCycles, lpSuccessors, lpMem,
                   lpSeen, lpOutcome, lpLocal>>
    /\ LoopFrame

\* fs.writeFile writes the text of combinedTrades from the start of the file.
saveWriteFile(c) ==
    /\ Saving(c, "opened")
    /\ lpFile' = Overwrite(lpFile, stringify(lpSaves[c].combined))
    /\ lpSaves' = [lpSaves EXCEPT ![c].pc = "written"]
    /\ UNCHANGED <<lpPc, lpRunning, lpTimers, lpCycles, lpSuccessors, lpMem,
                   lpSeen, lpOutcome, lpLocal>>
    /\ LoopFrame

\* saveTradesToFile resumes after the write: allTrades.length = 0 (line 51),
\* or the catch block after a failed write.  Then the promise of cycle()
\* settles, or the SIGINT handler calls process.exit(0), which ends every
\* timer, every running cycle and every file operation not yet done.
saveClear(c) ==
    /\ lpPc # "exited"
    /\ lpSaves[c].pc \in { "written", "writeFailed" }
    /\ lpMem' = IF lpSaves[c].pc = "written" THEN <<>> ELSE lpMem
    /\ lpSaves' = [lpSaves EXCEPT ![c] = NotSaving]
    /\ IF c = "sigint"
       THEN /\ lpPc' = "exited"
            /\ lpRunning' = 0
            /\ lpTimers' = 0
       ELSE /\ lpPc' = "settled"
            /\ lpRunning' = lpRunning - 1
            /\ lpTimers' = lpTimers
    /\ UNCHANGED <<lpCycles, lpSuccessors, lpFile, lpSeen, lpOutcome, lpLocal>>
    /\ LoopFrame

\* cycle().finally(() => setTimeout(loop, CYCLE_MS))
loopFinally ==
    /\ lpPc = "settled"
    /\ lpTimers' = lpTimers + 1
    /\ lpSuccessors' = lpSuccessors + 1
    /\ lpPc' = "waiting"
    /\ UNCHANGED <<lpRunning, lpCycles, lpMem, lpFile, lpSeen, lpOutcome,
                   lpLocal, lpSaves>>
    /\ LoopFrame

\* The SIGINT handler (lines 316-324), run while cycle() is suspended at an
\* await or the timer is pending: it calls saveTradesToFile, which runs to
\* `await fs.readFile(...)`, or it has nothing to save and exits at once.
\* The signal is sent once.
sigint ==
    /\ lpPc \in { "fetch", "signal", "order", "saving", "waiting" }
    /\ lpSaves["sigint"].pc = "idle"
    /\ IF Len(lpMem) > 0
       THEN /\ lpSaves' = [lpSaves EXCEPT
                              !["sigint"] = SaveCall("reading", <<>>, <<>>)]
            /\ UNCHANGED <<lpPc, lpRunning, lpTimers>>
       ELSE /\ lpPc' = "exited"
            /\ lpRunning' = 0
            /\ lpTimers' = 0
            /\ UNCHANGED lpSaves
    /\ UNCHANGED <<lpCycles, lpSuccessors, lpMem, lpFile, lpSeen, lpOutcome,
                   lpLocal>>
    /\ LoopFrame

LoopNext ==
    \/ loop
    \/ cycleFetched
    \/ cycleSignalled
    \/ cycleOrdered
    \/ \E c \in Callers : saveReadFile(c)
    \/ \E c \in Callers : saveCombine(c)
    \/ \E c \in Callers : saveOpenFile(c)
    \/ \E c \in Callers : saveWriteFile(c)
    \/ \E c \in Callers : saveClear(c)
    \/ loopFinally
    \/ sigint

SpecLoop == LoopInit /\ [][LoopNext]_vars

\* C38: live cycles never overlap and the loop never stalls: a successor is
\* scheduled only once the cycle has settled, and every cycle, however it
\* went, schedules exactly one, so at most one cycle is running and at most
\* one timer is pending at any time.
C38_NoOverlapNoStall ==
    /\ lpRunning <= 1
    /\ lpTimers <= 1
    /\ lpRunning > 0 => lpTimers = 0
    /\ lpPc \in { "fetch", "signal", "order", "saving", "settled" }
          => lpSuccessors = 0
    /\ lpPc \in { "fetch", "signal", "order", "saving" } => lpRunning = 1
    /\ lpPc = "waiting" => /\ lpSuccessors = 1
                           /\ lpTimers = 1
                           /\ lpRunning = 0

\* Every cycle has settled, the last of them by an error thrown into the
\* outer catch after an earlier one had placed an order and kept its record,
\* and the timer of the last is pending.
C38_Witness ==
    /\ lpPc = "waiting"
    /\ lpCycles = MaxLoopCycles
    /\ lpTimers = 1
    /\ lpOutcome = "throws"
    /\ Len(lpMem) > 0

\* The record of trade id in trades.json carries a pnl.
PnlPersisted(id) ==
    \E n \in 1..Len(lpFile.trades) :
        lpFile.trades[n].id = id /\ lpFile.trades[n].pnl # Undefined

\* C39: once a cycle after the entry has seen the last price across the
\* stop-loss or take-profit of a recorded trade, and that cycle has settled,
\* the trade's record in trades.json has its pnl.
C39_PnlCompleted ==
    lpPc = "waiting" => \A id \in lpSeen : PnlPersisted(id)

\* The part that holds: a record that is still in allTrades when a cycle
\* sees its exit level crossed gets its pnl in that cycle and keeps it.
C39_CompletedWhileInMemory ==
    \A n \in 1..Len(lpMem) :
        lpMem[n].id \in lpSeen => lpMem[n].pnl # Undefined

====
